---- MODULE Spec2Model ----
(***************************************************************************)
(* NFC reader/writer for NTAG21x tags (nfc_gui/nfc_handler.py,             *)
(* nfc_gui/settings.py): the NDEF codec, the page transport, the tag       *)
(* state operations and the read / write / update mode state machine.      *)
(*                                                                         *)
(* Strings are sequences of byte values (ASCII codes); None and the empty  *)
(* string are both the empty sequence NONE, which is how the code treats   *)
(* them (every test of a URL is a truthiness test).                        *)
(***************************************************************************)
EXTENDS Integers, Sequences, FiniteSets, TLC

VARIABLES
    h,          \* the NFCHandler object's fields
    settings,   \* the Settings object the handler holds
    now,        \* time.time(), in whole seconds
    ev,         \* what the last card event did: the tag, its I/O, its callbacks
    w,          \* one write_ndef_message call, page write by page write
    fl,         \* the write_new card event in flight on the card-event thread
    pw,         \* one _pcsc_write_page call, transmit by transmit
    ob,         \* one NFCObserver.update call, card by card
    call,       \* one call of a function of the core, taken alone
    mon         \* the monitoring fields of the handler and the card monitor

vars == <<h, settings, now, ev, w, fl, pw, ob, call, mon>>

NONE == <<>>

(***************************************************************************)
(* Bounds of the model.                                                    *)
(***************************************************************************)
\* the latest transport operation of a card event that a fault may hit
MaxFaultAt == 16
\* the latest transport operation of one write_ndef_message call a fault may hit
MaxWFaultAt == 40
\* the clock stops here
MaxTime == 9
\* the clock's first value (time.time() is far beyond the cooldown)
StartTime == 4
\* cards_processed and batch_count stop here
MaxCount == 2
\* largest batch_total the collaborator sets
MaxBatch == 2
\* the faults of the protection calls strike at operations 1..MaxKFaultAt
MaxKFaultAt == 7

(***************************************************************************)
(* Program constants.                                                      *)
(***************************************************************************)
FirstDataPage == 4
LastDataPage == 39
MaxPage == 40
LockPage == 2
CCPage == 3
TagPages == 45
TlvNdef == 3
TlvTerminator == 254
ReadCooldown == 3
MaxLengthByte == 255
CFG0Page == 41
CFG1Page == 42
PwdPage == 43
PackPage == 44

CC_VALUE == <<225, 16, 18, 0>>
PLACEHOLDER == <<3, 0, 0, 0>>
ZeroPage == <<0, 0, 0, 0>>

(***************************************************************************)
(* Strings.                                                                *)
(***************************************************************************)
\* n copies of c
Rep(c, n) == [i \in 1..n |-> c]

StartsWith(s, p) == Len(s) >= Len(p) /\ SubSeq(s, 1, Len(p)) = p
Drop(s, n) == SubSeq(s, n + 1, Len(s))

Min(a, b) == IF a < b THEN a ELSE b

HTTP == <<104, 116, 116, 112, 58, 47, 47>>
HTTPS == <<104, 116, 116, 112, 115, 58, 47, 47>>
WWW == <<119, 119, 119, 46>>
TEL == <<116, 101, 108, 58>>
TenNet == <<49, 48, 46, 48, 46, 48, 46>>
ITEM == <<105, 116, 101, 109, 47>>
Slash == 47
Space == 32

\* str.strip(): leading and trailing whitespace removed
RECURSIVE LStrip(_)
LStrip(s) == IF s # <<>> /\ Head(s) = Space THEN LStrip(Tail(s)) ELSE s
RECURSIVE RStrip(_, _)
RStrip(s, c) ==
    IF s # <<>> /\ s[Len(s)] = c THEN RStrip(SubSeq(s, 1, Len(s) - 1), c) ELSE s
Strip(s) == RStrip(LStrip(s), Space)

(***************************************************************************)
(* The ndef library's URI record, as create_ndef_record and                *)
(* read_ndef_message use it: a short record D1 01 <payload length> 55      *)
(* whose payload is a prefix code and the rest of the URI.  The prefix     *)
(* table is the head of the library's table, in its order.                 *)
(***************************************************************************)
PrefixStrings == << <<>>, HTTP \o WWW, HTTPS \o WWW, HTTP, HTTPS, TEL >>

\* the first prefix (code > 0) the URI starts with, else code 0
PrefixCode(url) ==
    IF \E k \in 2..Len(PrefixStrings) : StartsWith(url, PrefixStrings[k])
    THEN (CHOOSE k \in 2..Len(PrefixStrings) :
            /\ StartsWith(url, PrefixStrings[k])
            /\ \A j \in 2..(k - 1) : ~StartsWith(url, PrefixStrings[j])) - 1
    ELSE 0

UriPayload(url) ==
    LET code == PrefixCode(url)
    IN <<code>> \o Drop(url, Len(PrefixStrings[code + 1]))

\* b''.join(ndef.message_encoder([ndef.UriRecord(url)]))
MessageEncoderShortLength(url) ==
    <<209, 1, Len(UriPayload(url)) - 1, 85>> \o UriPayload(url)
MessageEncoder(url) == <<209, 1, Len(UriPayload(url)), 85>> \o UriPayload(url)

\* list(ndef.message_decoder(payload)) and the first record's uri: NONE when
\* the decoder raises or the record carries no URI
MessageDecoder(payload) ==
    IF /\ Len(payload) >= 5
       /\ payload[1] = 209 /\ payload[2] = 1 /\ payload[4] = 85
       /\ payload[3] >= 1 /\ Len(payload) >= 4 + payload[3]
       /\ payload[5] < Len(PrefixStrings)
    THEN PrefixStrings[payload[5] + 1] \o SubSeq(payload, 6, 4 + payload[3])
    ELSE NONE

\* create_ndef_record: NONE stands for the OverflowError of
\* message_length.to_bytes(1, 'big') on a message longer than 255 bytes
CreateNdefRecordNoPad(url) ==
    LET m == MessageEncoder(url)
    IN IF Len(m) > MaxLengthByte THEN NONE
       ELSE <<TlvNdef, Len(m)>> \o m \o <<TlvTerminator>>
CreateNdefRecord(url) ==
    LET m == MessageEncoder(url)
        tlv == <<TlvNdef, Len(m)>> \o m \o <<TlvTerminator>>
    IN IF Len(m) > MaxLengthByte THEN NONE
       ELSE tlv \o Rep(0, (4 - (Len(tlv) % 4)) % 4)

\* the TLV scan of read_ndef_message over the bytes read (positions are
\* 1-based): the first position holding 0x03 whose length byte is positive,
\* whose payload window lies within the bytes read and decodes to a URI
TlvAtAnyTag(data, i) ==
    /\ data[i + 1] > 0
    /\ i + 1 + data[i + 1] <= Len(data)
    /\ MessageDecoder(SubSeq(data, i + 2, i + 1 + data[i + 1])) # NONE
TlvAt(data, i) ==
    /\ data[i] = TlvNdef
    /\ data[i + 1] > 0
    /\ i + 1 + data[i + 1] <= Len(data)
    /\ MessageDecoder(SubSeq(data, i + 2, i + 1 + data[i + 1])) # NONE

ScanTLV(data) ==
    LET hits == {i \in 1..(Len(data) - 2) : TlvAt(data, i)}
    IN IF hits = {} THEN NONE
       ELSE LET i == CHOOSE k \in hits : \A j \in hits : k <= j
            IN MessageDecoder(SubSeq(data, i + 2, i + 1 + data[i + 1]))

\* _is_valid_url
IsValidUrl(data) ==
    /\ data # NONE
    /\ (StartsWith(Strip(data), HTTP) \/ StartsWith(Strip(data), HTTPS))

(***************************************************************************)
(* The tag and the transport.  A tag is its 45 pages of 4 bytes and how it *)
(* answers a write: a silent tag acknowledges every write and stores       *)
(* nothing; a tag whose static lock bytes are set refuses writes to pages  *)
(* 3..15.                                                                  *)
(* A transport context c is the tag, the operations issued so far (ops, a  *)
(* log of <<"r" | "w", page>>) and the fault f of this card event: the     *)
(* f.at-th transport operation fails (and every later one when f.sticky);  *)
(* a failing read answers a non-success status ("status") or raises        *)
(* ("exc"), a failing page write returns False.                            *)
(***************************************************************************)
NoFault == [at |-> 0, kind |-> "status", sticky |-> FALSE]

Faulty(c) ==
    /\ c.f.at > 0
    /\ IF c.f.sticky THEN Len(c.ops) + 1 >= c.f.at ELSE Len(c.ops) + 1 = c.f.at

PhysLocked(tag) == tag.pages[LockPage][3] = 255 /\ tag.pages[LockPage][4] = 255

Ctx(tag, f) == [tag |-> tag, ops |-> <<>>, f |-> f]

\* connection.transmit of a read command: st is "ok", "status" or "exc"
ReadOp(c, page) ==
    [c |-> [c EXCEPT !.ops = Append(@, <<"r", page>>)],
     st |-> IF Faulty(c) THEN c.f.kind ELSE "ok",
     data |-> IF Faulty(c) THEN <<>> ELSE c.tag.pages[page]]

\* _pcsc_write_page as its caller sees it: True or False, never an exception
PcscWritePageAlwaysLands(c, page, data4) ==
    LET ok == ~Faulty(c)
    IN [c |-> [c EXCEPT !.ops = Append(@, <<"w", page>>),
                        !.tag.pages[page] = data4],
        ok |-> ok]
PcscWritePage(c, page, data4) ==
    LET refused == PhysLocked(c.tag) /\ page >= CCPage /\ page <= 15
        ok == ~Faulty(c) /\ (c.tag.silent \/ ~refused)
        lands == ok /\ ~c.tag.silent
    IN [c |-> [c EXCEPT !.ops = Append(@, <<"w", page>>),
                        !.tag.pages[page] = IF lands THEN data4 ELSE @],
        ok |-> ok]

\* _pcsc_read_page: the 4 bytes, NONE on a non-success status; exc when
\* transmit raised
PcscReadPage(c, page) ==
    LET r == ReadOp(c, page)
    IN [c |-> r.c, exc |-> r.st = "exc",
        data |-> IF r.st = "ok" THEN r.data ELSE NONE]

\* is_tag_locked
IsTagLockedOneByte(c) ==
    LET r == PcscReadPage(c, LockPage)
    IN [c |-> r.c,
        res |-> ~r.exc /\ r.data # NONE /\ Len(r.data) = 4
                /\ (r.data[3] = 255 \/ r.data[4] = 255)]
IsTagLocked(c) ==
    LET r == PcscReadPage(c, LockPage)
    IN [c |-> r.c,
        res |-> ~r.exc /\ r.data # NONE /\ Len(r.data) = 4
                /\ r.data[3] = 255 /\ r.data[4] = 255]

\* the page loop of read_ndef_message: pages 4..39 until a non-success
\* status or a page holding the terminator
RECURSIVE ReadPages(_, _, _)
ReadPages(c, page, data) ==
    IF page >= MaxPage THEN [c |-> c, exc |-> FALSE, data |-> data]
    ELSE LET r == ReadOp(c, page)
         IN IF r.st = "exc" THEN [c |-> r.c, exc |-> TRUE, data |-> data]
            ELSE IF r.st = "status" THEN [c |-> r.c, exc |-> FALSE, data |-> data]
            ELSE IF \E k \in 1..4 : r.data[k] = TlvTerminator
                 THEN [c |-> r.c, exc |-> FALSE, data |-> data \o r.data]
                 ELSE ReadPages(r.c, page + 1, data \o r.data)

\* read_ndef_message: the URI, or NONE
ReadNdefMessage(c) ==
    LET r == ReadPages(c, FirstDataPage, <<>>)
    IN [c |-> r.c, url |-> IF r.exc THEN NONE ELSE ScanTLV(r.data)]

\* _has_ndef_content
HasNdefContentAnyText(c) ==
    LET r == ReadNdefMessage(c)
    IN [c |-> r.c, has |-> r.url # NONE, url |-> r.url]
HasNdefContent(c) ==
    LET r == ReadNdefMessage(c)
    IN IF r.url # NONE /\ IsValidUrl(r.url)
       THEN [c |-> r.c, has |-> TRUE, url |-> r.url]
       ELSE [c |-> r.c, has |-> FALSE, url |-> NONE]

\* what a reader that meets no fault decodes from the tag
Decoded(tag) == ReadNdefMessage(Ctx(tag, NoFault)).url

(***************************************************************************)
(* _format_cc_if_needed and write_ndef_message, one transport operation    *)
(* per step.  wm is the call's frame: pc (where it stands), c (the         *)
(* transport context), msg (ndef_message), remaining and page (the loop's  *)
(* variables), ret (the return value once pc = "done").                    *)
(***************************************************************************)
WAfterCC(msg) == IF Len(msg) < 4 THEN "short" ELSE "placeholder"
WLoopNoPageLimit(remaining, page) ==
    IF remaining # <<>> THEN "pages" ELSE "final"
WLoop(remaining, page) ==
    IF remaining # <<>> /\ page <= LastDataPage THEN "pages" ELSE "final"

Chunk(remaining) ==
    LET k == Min(4, Len(remaining))
    IN SubSeq(remaining, 1, k) \o Rep(0, 4 - k)

WBegin(c, msg) ==
    [pc |-> "cc_read", c |-> c, msg |-> msg, remaining |-> <<>>,
     page |-> FirstDataPage, ret |-> FALSE]

\* _format_cc_if_needed: the read of page 3
WFormatCCReadStep(wm) ==
    LET r == PcscReadPage(wm.c, CCPage)
        present == /\ ~r.exc /\ r.data # NONE /\ Len(r.data) = 4
                   /\ r.data[1] = 225 /\ r.data[2] = 16
    IN [wm EXCEPT !.c = r.c,
                  !.pc = IF r.exc \/ present THEN WAfterCC(wm.msg) ELSE "cc_write"]

\* _format_cc_if_needed: the write of the CC value (its result is dropped)
WFormatCCWriteStep(wm) ==
    LET r == PcscWritePage(wm.c, CCPage, CC_VALUE)
    IN [wm EXCEPT !.c = r.c, !.pc = WAfterCC(wm.msg)]

\* a message shorter than one page
WShortStep(wm) ==
    LET r == PcscWritePage(wm.c, FirstDataPage, Chunk(wm.msg))
    IN [wm EXCEPT !.c = r.c, !.pc = "done", !.ret = r.ok]

\* the placeholder header 03 00 00 00 on page 4
WPlaceholderStepTrueHeader(wm) ==
    LET r == PcscWritePage(wm.c, FirstDataPage, SubSeq(wm.msg, 1, 4))
    IN IF ~r.ok THEN [wm EXCEPT !.c = r.c, !.pc = "done", !.ret = FALSE]
       ELSE [wm EXCEPT !.c = r.c,
                       !.remaining = Drop(wm.msg, 4),
                       !.page = 5,
                       !.pc = WLoop(Drop(wm.msg, 4), 5)]
WPlaceholderStep(wm) ==
    LET r == PcscWritePage(wm.c, FirstDataPage, PLACEHOLDER)
    IN IF ~r.ok THEN [wm EXCEPT !.c = r.c, !.pc = "done", !.ret = FALSE]
       ELSE [wm EXCEPT !.c = r.c,
                       !.remaining = Drop(wm.msg, 4),
                       !.page = 5,
                       !.pc = WLoop(Drop(wm.msg, 4), 5)]

\* one pass of the loop over the remaining pages
WPageStepIgnoreFailure(wm) ==
    LET r == PcscWritePage(wm.c, wm.page, Chunk(wm.remaining))
    IN [wm EXCEPT !.c = r.c,
                  !.remaining = Drop(wm.remaining, Min(4, Len(wm.remaining))),
                  !.page = wm.page + 1,
                  !.pc = WLoop(Drop(wm.remaining, Min(4, Len(wm.remaining))),
                               wm.page + 1)]
WPageStep(wm) ==
    LET r == PcscWritePage(wm.c, wm.page, Chunk(wm.remaining))
    IN IF ~r.ok THEN [wm EXCEPT !.c = r.c, !.pc = "done", !.ret = FALSE]
       ELSE [wm EXCEPT !.c = r.c,
                       !.remaining = Drop(wm.remaining, Min(4, Len(wm.remaining))),
                       !.page = wm.page + 1,
                       !.pc = WLoop(Drop(wm.remaining, Min(4, Len(wm.remaining))),
                                    wm.page + 1)]

\* the final rewrite of page 4 with the true header
WFinalStep(wm) ==
    LET r == PcscWritePage(wm.c, FirstDataPage, SubSeq(wm.msg, 1, 4))
    IN [wm EXCEPT !.c = r.c, !.pc = "done", !.ret = r.ok]

WStep(wm) ==
    CASE wm.pc = "cc_read" -> WFormatCCReadStep(wm)
      [] wm.pc = "cc_write" -> WFormatCCWriteStep(wm)
      [] wm.pc = "short" -> WShortStep(wm)
      [] wm.pc = "placeholder" -> WPlaceholderStep(wm)
      [] wm.pc = "pages" -> WPageStep(wm)
      [] wm.pc = "final" -> WFinalStep(wm)
      [] OTHER -> wm

RECURSIVE WRun(_)
WRun(wm) == IF wm.pc = "done" THEN wm ELSE WRun(WStep(wm))

\* write_ndef_message, run to its return
WriteNdefMessage(c, msg) ==
    LET r == WRun(WBegin(c, msg))
    IN [c |-> r.c, ok |-> r.ret]

(***************************************************************************)
(* Tags.                                                                   *)
(***************************************************************************)
\* the message's bytes laid on pages 4.., as far as the data area reaches
PageOf(msg, p) ==
    LET first == 4 * (p - FirstDataPage) + 1
    IN IF first > Len(msg) THEN ZeroPage
       ELSE Chunk(SubSeq(msg, first, Min(Len(msg), first + 3)))

\* an NDEF-formatted tag holding the bytes msg in its data area
TagWith(msg, locked, silent) ==
    [pages |-> [p \in 0..(TagPages - 1) |->
                  IF p = LockPage THEN (IF locked THEN <<0, 0, 255, 255>> ELSE ZeroPage)
                  ELSE IF p = CCPage THEN CC_VALUE
                  ELSE IF p >= FirstDataPage /\ p <= LastDataPage THEN PageOf(msg, p)
                  ELSE IF p = CFG0Page THEN <<4, 0, 0, 255>>
                  ELSE IF p = CFG1Page THEN <<0, 5, 0, 0>>
                  ELSE ZeroPage],
     silent |-> silent]

BlankTag == TagWith(<<>>, FALSE, FALSE)
\* a tag that was never NDEF-formatted: page 3 is empty
RawTag == [BlankTag EXCEPT !.pages[CCPage] = ZeroPage]

DataPages(tag) == [p \in FirstDataPage..LastDataPage |-> tag.pages[p]]

(***************************************************************************)
(* URLs of the model.                                                      *)
(***************************************************************************)
UrlA == HTTPS \o <<97, 46, 98>>                       \* https://a.b
UrlB == HTTP \o WWW \o <<99>>                         \* http://www.c
UrlOld == HTTP \o TenNet \o <<53, 47>> \o ITEM \o <<120>>   \* http://10.0.0.5/item/x
TextTel == TEL \o <<49>>                              \* tel:1
\* https://aaa...a with n letters
LongUrl(n) == HTTPS \o Rep(97, n)

(***************************************************************************)
(* Tag state operations.                                                   *)
(***************************************************************************)
\* lock_tag_permanently
LockTagPermanentlyKeepRead(c) ==
    LET r == ReadOp(c, LockPage)
    IN IF r.st # "ok" THEN [c |-> r.c, ok |-> FALSE]
       ELSE PcscWritePage(r.c, LockPage, r.data)
LockTagPermanently(c) ==
    LET r == ReadOp(c, LockPage)
    IN IF r.st # "ok" THEN [c |-> r.c, ok |-> FALSE]
       ELSE PcscWritePage(r.c, LockPage, <<r.data[1], r.data[2], 255, 255>>)

\* a ^ b for a byte a and a mask b that is 0xAA or 0x55, bit by bit
Bit(a, k) == (a \div (2 ^ k)) % 2
Xor(a, b) ==
    LET bit(k) == (Bit(a, k) + Bit(b, k)) % 2
    IN bit(0) + 2 * bit(1) + 4 * bit(2) + 8 * bit(3)
       + 16 * bit(4) + 32 * bit(5) + 64 * bit(6) + 128 * bit(7)

\* password.encode('utf-8')[:4].ljust(4, b'\x00')
PwdBytes(password) ==
    LET k == Min(4, Len(password))
    IN SubSeq(password, 1, k) \o Rep(0, 4 - k)

\* set_password_protection
SetPasswordProtectionKeepsAuth0(c, password) ==
    LET pwd == PwdBytes(password)
        w1 == PcscWritePage(c, PwdPage, pwd)
        w2 == PcscWritePage(w1.c, PackPage,
                            <<Xor(pwd[1], 170), Xor(pwd[2], 85), 0, 0>>)
        r3 == PcscReadPage(w2.c, CFG0Page)
        cfg0 == IF r3.data = NONE THEN <<4, 0, 0, 255>> ELSE r3.data
        w3 == PcscWritePage(r3.c, CFG0Page, cfg0)
        r4 == PcscReadPage(w3.c, CFG1Page)
        cfg1 == IF r4.data = NONE THEN <<0, 5, 0, 0>> ELSE r4.data
        w4 == PcscWritePage(r4.c, CFG1Page,
                            <<cfg1[1] % 128, cfg1[2], cfg1[3], cfg1[4]>>)
    IN IF ~w1.ok THEN [c |-> w1.c, ok |-> FALSE]
       ELSE IF ~w2.ok THEN [c |-> w2.c, ok |-> FALSE]
       ELSE IF r3.exc THEN [c |-> r3.c, ok |-> FALSE]
       ELSE IF ~w3.ok THEN [c |-> w3.c, ok |-> FALSE]
       ELSE IF r4.exc THEN [c |-> r4.c, ok |-> FALSE]
       ELSE [c |-> w4.c, ok |-> w4.ok]
SetPasswordProtectionContinues(c, password) ==
    LET pwd == PwdBytes(password)
        w1 == PcscWritePage(c, PwdPage, pwd)
        w2 == PcscWritePage(w1.c, PackPage,
                            <<Xor(pwd[1], 170), Xor(pwd[2], 85), 0, 0>>)
        r3 == PcscReadPage(w2.c, CFG0Page)
        cfg0 == IF r3.data = NONE THEN <<4, 0, 0, 255>> ELSE r3.data
        w3 == PcscWritePage(r3.c, CFG0Page, <<cfg0[1], cfg0[2], cfg0[3], 4>>)
        r4 == PcscReadPage(w3.c, CFG1Page)
        cfg1 == IF r4.data = NONE THEN <<0, 5, 0, 0>> ELSE r4.data
        w4 == PcscWritePage(r4.c, CFG1Page,
                            <<cfg1[1] % 128, cfg1[2], cfg1[3], cfg1[4]>>)
    IN [c |-> w4.c, ok |-> w1.ok /\ w2.ok /\ w3.ok /\ w4.ok]
SetPasswordProtection(c, password) ==
    LET pwd == PwdBytes(password)
        w1 == PcscWritePage(c, PwdPage, pwd)
        w2 == PcscWritePage(w1.c, PackPage,
                            <<Xor(pwd[1], 170), Xor(pwd[2], 85), 0, 0>>)
        r3 == PcscReadPage(w2.c, CFG0Page)
        cfg0 == IF r3.data = NONE THEN <<4, 0, 0, 255>> ELSE r3.data
        w3 == PcscWritePage(r3.c, CFG0Page, <<cfg0[1], cfg0[2], cfg0[3], 4>>)
        r4 == PcscReadPage(w3.c, CFG1Page)
        cfg1 == IF r4.data = NONE THEN <<0, 5, 0, 0>> ELSE r4.data
        w4 == PcscWritePage(r4.c, CFG1Page,
                            <<cfg1[1] % 128, cfg1[2], cfg1[3], cfg1[4]>>)
    IN IF ~w1.ok THEN [c |-> w1.c, ok |-> FALSE]
       ELSE IF ~w2.ok THEN [c |-> w2.c, ok |-> FALSE]
       ELSE IF r3.exc THEN [c |-> r3.c, ok |-> FALSE]
       ELSE IF ~w3.ok THEN [c |-> w3.c, ok |-> FALSE]
       ELSE IF r4.exc THEN [c |-> r4.c, ok |-> FALSE]
       ELSE [c |-> w4.c, ok |-> w4.ok]

\* is_password_protected
IsPasswordProtected(c) ==
    LET r == PcscReadPage(c, CFG0Page)
    IN [c |-> r.c,
        res |-> ~r.exc /\ r.data # NONE /\ Len(r.data) >= 4 /\ r.data[4] < 255]

(***************************************************************************)
(* Settings.rewrite_url.  The configured source_pattern is one of          *)
(*   "default"  DEFAULT_PATTERN, ^https?://10\.0\.0\.\d+(?::\d+)?/+item/(.+)$ *)
(*   "nogroup"  the same expression without its capture group              *)
(*   "invalid"  an expression re.match cannot compile                      *)
(*   "empty"    the empty string                                           *)
(* and target_base_url is a string.                                        *)
(***************************************************************************)
IsDigit(x) == x >= 48 /\ x <= 57

IsSlash(x) == x = Slash

\* the length of the longest prefix of s made of digits (\d+), of slashes (/+)
Digits(s) ==
    CHOOSE k \in 0..Len(s) :
        /\ \A j \in 1..k : IsDigit(s[j])
        /\ (k = Len(s) \/ ~IsDigit(s[k + 1]))
Slashes(s) ==
    CHOOSE k \in 0..Len(s) :
        /\ \A j \in 1..k : IsSlash(s[j])
        /\ (k = Len(s) \/ ~IsSlash(s[k + 1]))

\* re.match(DEFAULT_PATTERN, url): the text of group 1, NONE when there is
\* no match
AfterScheme(url) ==
    IF StartsWith(url, HTTPS) THEN Drop(url, Len(HTTPS))
    ELSE IF StartsWith(url, HTTP) THEN Drop(url, Len(HTTP))
    ELSE NONE

AfterPort(s) ==
    IF s # <<>> /\ s[1] = 58 /\ Digits(Drop(s, 1)) >= 1
    THEN Drop(s, 1 + Digits(Drop(s, 1)))
    ELSE s

MatchDefault(url) ==
    LET a == AfterScheme(url)
        b == IF StartsWith(a, TenNet) THEN Drop(a, Len(TenNet)) ELSE NONE
        d == Digits(b)
        e == IF d >= 1 THEN AfterPort(Drop(b, d)) ELSE NONE
        sl == Slashes(e)
        g == IF sl >= 1 THEN Drop(e, sl) ELSE NONE
    IN IF StartsWith(g, ITEM) /\ Len(g) > Len(ITEM) THEN Drop(g, Len(ITEM))
       ELSE NONE

DefaultTarget ==
    HTTPS \o <<121, 111, 117, 114, 45, 100, 111, 109, 97, 105, 110, 46,
               99, 111, 109, 47>> \o ITEM

\* rewrite_url: url and rewritten are the returned pair; raised is an
\* exception leaving the function (match.group(1) on a pattern that has no
\* group raises IndexError, which the except clause for re.error lets through)
RewriteUrlNoNormalise(st, url) ==
    IF st.source_pattern = "default" /\ st.target_base_url # NONE
       /\ MatchDefault(url) # NONE
    THEN [url |-> st.target_base_url \o MatchDefault(url),
          rewritten |-> TRUE, raised |-> FALSE]
    ELSE [url |-> url, rewritten |-> FALSE, raised |-> FALSE]
RewriteUrl(st, url) ==
    IF st.source_pattern = "empty" \/ st.target_base_url = NONE
    THEN [url |-> url, rewritten |-> FALSE, raised |-> FALSE]
    ELSE IF st.source_pattern = "invalid"
    THEN [url |-> url, rewritten |-> FALSE, raised |-> FALSE]
    ELSE IF MatchDefault(url) = NONE
    THEN [url |-> url, rewritten |-> FALSE, raised |-> FALSE]
    ELSE IF st.source_pattern = "nogroup"
    THEN [url |-> NONE, rewritten |-> FALSE, raised |-> TRUE]
    ELSE [url |-> RStrip(st.target_base_url, Slash) \o <<Slash>>
                    \o MatchDefault(url),
          rewritten |-> TRUE, raised |-> FALSE]

(***************************************************************************)
(* The handler, its settings and the record of the last card event.        *)
(***************************************************************************)
\* NFCHandler.__init__
HandlerInit ==
    [mode |-> "read", url_to_write |-> NONE,
     batch_count |-> 0, batch_total |-> 0, cards_processed |-> 0,
     lock_tags |-> FALSE, use_password |-> FALSE, tag_password |-> NONE,
     allow_overwrite |-> FALSE, last_read_time |-> 0,
     update_step |-> "scan_old",
     pending_rewrite_url |-> NONE, pending_original_url |-> NONE]

\* Settings.__init__
SettingsInit ==
    [source_pattern |-> "default", target_base_url |-> DefaultTarget,
     verify_after_write |-> TRUE]

\* no card is being processed
EvNone ==
    [kind |-> "none", before |-> HandlerInit, tag0 |-> BlankTag,
     c |-> Ctx(BlankTag, NoFault), out |-> <<>>, at |-> 0, raised |-> FALSE]

WIdle == [wm |-> [WBegin(Ctx(BlankTag, NoFault), <<>>) EXCEPT !.pc = "idle"],
          url |-> NONE, tag0 |-> BlankTag]

\* no write_new card event is in flight
FIdle ==
    [pc |-> "idle", before |-> HandlerInit, tag0 |-> BlankTag,
     c |-> Ctx(BlankTag, NoFault), out |-> <<>>, seen |-> NONE,
     wrote |-> NONE, log |-> "", cancelled |-> FALSE]

\* no _pcsc_write_page call is running
PIdle ==
    [pc |-> "idle", page |-> 0, protocol |-> "T1", attempts |-> 0,
     did_reconnect |-> FALSE,
     reconnects |-> 0, trace |-> <<>>, ret |-> FALSE]

\* no update call is running
OIdle == [pc |-> "idle", cards |-> <<>>, log_raises |-> FALSE, open |-> 0]

\* no function is being called on its own
CIdle == [fn |-> "none"]

\* NFCHandler.__init__, the fields of start_monitoring and stop_monitoring:
\* reader (NoReader or its name), monitor and observer (set or None), is_monitoring, the callbacks
\* (0: None, k: those passed by the call numbered k); reg is the number of
\* observers registered with the card monitor, last the last call made
NoReader == ""

MonHandlerInit ==
    [reader |-> NoReader, monitor |-> FALSE, observer |-> FALSE,
     is_monitoring |-> FALSE, callbacks |-> 0]

MonInit ==
    [hm |-> MonHandlerInit, reg |-> 0,
     last |-> [fn |-> "none", before |-> MonHandlerInit, reg0 |-> 0,
               readers |-> <<>>, raises |-> FALSE, out |-> <<>>]]

(***************************************************************************)
(* The mode handlers of NFCObserver.  Each takes the handler's fields hh,   *)
(* the settings st and the transport context c of the connected card, and  *)
(* yields the handler's fields, the context and the callbacks made, in     *)
(* order; raised says that an exception left the handler.  A callback is   *)
(* [cb |-> its name, a |-> its arguments]; a message text is the sequence  *)
(* of the pieces it is concatenated from.                                  *)
(***************************************************************************)
Res(hh, c, out) == [h |-> hh, c |-> c, out |-> out, raised |-> FALSE]
Raise(hh, c, out) == [h |-> hh, c |-> c, out |-> out, raised |-> TRUE]

Log(msg, level) == [cb |-> "log_callback", a |-> <<msg, level>>]
WriteCb(msg) == [cb |-> "write_callback", a |-> <<msg>>]
ReadCb(url) == [cb |-> "read_callback", a |-> <<url>>]
LockedTagCb(url) == [cb |-> "locked_tag_callback", a |-> <<url>>]
UpdateScanCb(orig, sugg) == [cb |-> "update_scan_callback", a |-> <<orig, sugg>>]
UpdateCb(orig, new, ok) == [cb |-> "update_callback", a |-> <<orig, new, ok>>]

\* handle_read_mode, at time t
HandleReadModeNoDebounce(hh, st, c, t) ==
    LET r == ReadNdefMessage(c)
    IN IF r.url # NONE
       THEN Res([hh EXCEPT !.last_read_time = t], r.c, <<ReadCb(r.url)>>)
       ELSE Res(hh, r.c, <<Log("Invalid URL", "warning")>>)
HandleReadModeStampsFailure(hh, st, c, t) ==
    IF t - hh.last_read_time < ReadCooldown THEN Res(hh, c, <<>>)
    ELSE LET r == ReadNdefMessage(c)
         IN IF r.url # NONE
            THEN Res([hh EXCEPT !.last_read_time = t], r.c, <<ReadCb(r.url)>>)
            ELSE Res([hh EXCEPT !.last_read_time = t], r.c,
                     <<Log("Invalid URL", "warning")>>)
HandleReadMode(hh, st, c, t) ==
    IF t - hh.last_read_time < ReadCooldown THEN Res(hh, c, <<>>)
    ELSE LET r == ReadNdefMessage(c)
         IN IF r.url # NONE
            THEN Res([hh EXCEPT !.last_read_time = t], r.c, <<ReadCb(r.url)>>)
            ELSE Res(hh, r.c, <<Log("Invalid URL", "warning")>>)

\* the outcome p of a protection call as the context and the qualifier of
\* the success message
Qualified(p, done, failed) ==
    [c |-> p.c, sfx |-> IF p.ok THEN <<done>> ELSE <<failed>>]

\* handle_write_mode, "Apply protection": password or permanent lock
ProtectUnqualified(hh, c) ==
    IF hh.use_password /\ hh.tag_password # NONE
    THEN Qualified(SetPasswordProtection(c, hh.tag_password),
                   " & password protected", " & password protected")
    ELSE IF hh.lock_tags
    THEN Qualified(LockTagPermanently(c), " & locked", " & locked")
    ELSE [c |-> c, sfx |-> <<>>]
Protect(hh, c) ==
    IF hh.use_password /\ hh.tag_password # NONE
    THEN Qualified(SetPasswordProtection(c, hh.tag_password),
                   " & password protected", " (password protection failed)")
    ELSE IF hh.lock_tags
    THEN Qualified(LockTagPermanently(c), " & locked", " (lock failed)")
    ELSE [c |-> c, sfx |-> <<>>]

\* handle_write_mode, "Perform delayed verification if enabled": v is what
\* read_ndef_message returned after the protection p
Verified(hh, p, v) ==
    [c |-> v.c,
     sfx |-> p.sfx \o (IF v.url = hh.url_to_write THEN <<" & verified">>
                       ELSE <<" (verification failed)">>)]

DelayedVerify(hh, st, p) ==
    IF st.verify_after_write THEN Verified(hh, p, ReadNdefMessage(p.c)) ELSE p

\* handle_write_mode, the success callback and the counters: q holds the
\* context and the qualifiers of the message
ReportAlwaysBatches(hh, q) ==
    LET bc == hh.batch_count + 1
    IN Res([hh EXCEPT !.cards_processed = @ + 1, !.batch_count = bc],
           q.c,
           <<WriteCb(<<"Written">> \o q.sfx)>>
             \o (IF hh.batch_total > 1 /\ bc < hh.batch_total
                 THEN <<Log("Present next tag", "info")>> ELSE <<>>))
Report(hh, q) ==
    LET bc == IF hh.batch_total > 1 THEN hh.batch_count + 1 ELSE hh.batch_count
    IN Res([hh EXCEPT !.cards_processed = @ + 1, !.batch_count = bc],
           q.c,
           <<WriteCb(<<"Written">> \o q.sfx)>>
             \o (IF hh.batch_total > 1 /\ bc < hh.batch_total
                 THEN <<Log("Present next tag", "info")>> ELSE <<>>))

\* handle_write_mode from the point where the low-level write and the quick
\* read-back have succeeded: protection, delayed verification, callback,
\* counters
WriteSucceeded(hh, st, c) == Report(hh, DelayedVerify(hh, st, Protect(hh, c)))

\* handle_write_mode from the point where the tag was found unlocked and the
\* overwrite guard let the write through
WriteAndVerifyNoReadBack(hh, st, c) ==
    LET msg == CreateNdefRecord(hh.url_to_write)
        wr == WriteNdefMessage(c, msg)
    IN IF msg = NONE THEN Res(hh, c, <<Log("Write error", "error")>>)
       ELSE IF ~wr.ok THEN Res(hh, wr.c, <<Log("Write failed", "error")>>)
       ELSE WriteSucceeded(hh, st, wr.c)
WriteAndVerify(hh, st, c) ==
    LET msg == CreateNdefRecord(hh.url_to_write)
        wr == WriteNdefMessage(c, msg)
        qv == ReadNdefMessage(wr.c)
    IN IF msg = NONE THEN Res(hh, c, <<Log("Write error", "error")>>)
       ELSE IF ~wr.ok THEN Res(hh, wr.c, <<Log("Write failed", "error")>>)
       ELSE IF qv.url # hh.url_to_write
       THEN Res(hh, qv.c, <<WriteCb(<<"Locked tag - writing prevented">>)>>)
       ELSE WriteSucceeded(hh, st, qv.c)

\* handle_write_mode on a tag found locked
WriteModeLockedGenericOnly(hh, c) ==
    LET e == HasNdefContent(c)
    IN Res(hh, e.c, <<WriteCb(<<"Locked tag detected">>)>>)
WriteModeLocked(hh, c) ==
    LET e == HasNdefContent(c)
    IN IF e.has /\ e.url # NONE THEN Res(hh, e.c, <<LockedTagCb(e.url)>>)
       ELSE Res(hh, e.c, <<WriteCb(<<"Locked tag detected">>)>>)

\* handle_write_mode on a tag found unlocked: the overwrite guard
WriteModeUnlockedNoGuard(hh, st, c) ==
    LET e == HasNdefContent(c)
    IN WriteAndVerify(hh, st, e.c)
WriteModeUnlocked(hh, st, c) ==
    LET e == HasNdefContent(c)
    IN IF e.has /\ ~hh.allow_overwrite
       THEN Res(hh, e.c, <<WriteCb(<<"Write blocked: tag has existing data">>)>>)
       ELSE WriteAndVerify(hh, st, e.c)

\* handle_write_mode
HandleWriteModeNoLockCheck(hh, st, c) ==
    IF hh.url_to_write = NONE THEN Res(hh, c, <<>>)
    ELSE WriteModeUnlocked(hh, st, c)
HandleWriteMode(hh, st, c) ==
    IF hh.url_to_write = NONE THEN Res(hh, c, <<>>)
    ELSE LET lk == IsTagLocked(c)
         IN IF lk.res THEN WriteModeLocked(hh, lk.c)
            ELSE WriteModeUnlocked(hh, st, lk.c)

\* handle_update_mode, step scan_old
UpdateScanOldAdvances(hh, st, c) ==
    LET r == ReadNdefMessage(c)
        rw == RewriteUrl(st, r.url)
    IN IF r.url = NONE
       THEN Res(hh, r.c, <<Log("Empty tag - scan a tag with URL", "warning")>>)
       ELSE IF rw.raised THEN Raise(hh, r.c, <<>>)
       ELSE Res([hh EXCEPT !.update_step = "write_new",
                           !.pending_original_url = r.url,
                           !.pending_rewrite_url = rw.url],
                r.c,
                <<UpdateScanCb(r.url, IF rw.rewritten THEN rw.url ELSE NONE)>>)
UpdateScanOld(hh, st, c) ==
    LET r == ReadNdefMessage(c)
        rw == RewriteUrl(st, r.url)
    IN IF r.url = NONE
       THEN Res(hh, r.c, <<Log("Empty tag - scan a tag with URL", "warning")>>)
       ELSE IF rw.raised THEN Raise(hh, r.c, <<>>)
       ELSE Res(hh, r.c,
                <<UpdateScanCb(r.url, IF rw.rewritten THEN rw.url ELSE NONE)>>)

\* handle_update_mode, step write_new, from the point where the tag was
\* found unlocked and without valid content
UpdateWriteNoReset(hh, c) ==
    LET msg == CreateNdefRecord(hh.pending_rewrite_url)
        wr == WriteNdefMessage(c, msg)
        rb == ReadNdefMessage(wr.c)
        lk == LockTagPermanently(rb.c)
        failed == UpdateCb(hh.pending_original_url, hh.pending_rewrite_url, FALSE)
    IN IF msg = NONE THEN Res(hh, c, <<Log("Write error", "error"), failed>>)
       ELSE IF ~wr.ok THEN Res(hh, wr.c, <<Log("Write failed", "error"), failed>>)
       ELSE IF rb.url # hh.pending_rewrite_url
       THEN Res(hh, rb.c,
                <<Log("Locked tag - writing prevented", "error"), failed>>)
       ELSE Res([hh EXCEPT !.cards_processed = @ + 1],
                lk.c,
                <<UpdateCb(hh.pending_original_url, hh.pending_rewrite_url, TRUE)>>)
UpdateWriteFailureResets(hh, c) ==
    LET msg == CreateNdefRecord(hh.pending_rewrite_url)
        wr == WriteNdefMessage(c, msg)
        rb == ReadNdefMessage(wr.c)
        lk == LockTagPermanently(rb.c)
        failed == UpdateCb(hh.pending_original_url, hh.pending_rewrite_url, FALSE)
        reset == [hh EXCEPT !.update_step = "scan_old",
                            !.pending_rewrite_url = NONE,
                            !.pending_original_url = NONE]
    IN IF msg = NONE THEN Res(reset, c, <<Log("Write error", "error"), failed>>)
       ELSE IF ~wr.ok THEN Res(reset, wr.c, <<Log("Write failed", "error"), failed>>)
       ELSE IF rb.url # hh.pending_rewrite_url
       THEN Res(reset, rb.c,
                <<Log("Locked tag - writing prevented", "error"), failed>>)
       ELSE Res([reset EXCEPT !.cards_processed = @ + 1],
                lk.c,
                <<UpdateCb(hh.pending_original_url, hh.pending_rewrite_url, TRUE)>>)
UpdateWriteLocksUnverified(hh, c) ==
    LET msg == CreateNdefRecord(hh.pending_rewrite_url)
        wr == WriteNdefMessage(c, msg)
        lk == LockTagPermanently(wr.c)
        rb == ReadNdefMessage(lk.c)
        failed == UpdateCb(hh.pending_original_url, hh.pending_rewrite_url, FALSE)
    IN IF msg = NONE THEN Res(hh, c, <<Log("Write error", "error"), failed>>)
       ELSE IF ~wr.ok THEN Res(hh, wr.c, <<Log("Write failed", "error"), failed>>)
       ELSE IF rb.url # hh.pending_rewrite_url
       THEN Res(hh, rb.c,
                <<Log("Locked tag - writing prevented", "error"), failed>>)
       ELSE Res([hh EXCEPT !.cards_processed = @ + 1,
                           !.update_step = "scan_old",
                           !.pending_rewrite_url = NONE,
                           !.pending_original_url = NONE],
                rb.c,
                <<UpdateCb(hh.pending_original_url, hh.pending_rewrite_url, TRUE)>>)
UpdateWrite(hh, c) ==
    LET msg == CreateNdefRecord(hh.pending_rewrite_url)
        wr == WriteNdefMessage(c, msg)
        rb == ReadNdefMessage(wr.c)
        lk == LockTagPermanently(rb.c)
        failed == UpdateCb(hh.pending_original_url, hh.pending_rewrite_url, FALSE)
    IN IF msg = NONE THEN Res(hh, c, <<Log("Write error", "error"), failed>>)
       ELSE IF ~wr.ok THEN Res(hh, wr.c, <<Log("Write failed", "error"), failed>>)
       ELSE IF rb.url # hh.pending_rewrite_url
       THEN Res(hh, rb.c,
                <<Log("Locked tag - writing prevented", "error"), failed>>)
       ELSE Res([hh EXCEPT !.cards_processed = @ + 1,
                           !.update_step = "scan_old",
                           !.pending_rewrite_url = NONE,
                           !.pending_original_url = NONE],
                lk.c,
                <<UpdateCb(hh.pending_original_url, hh.pending_rewrite_url, TRUE)>>)

\* handle_update_mode, step write_new
UpdateWriteNewNoContentCheck(hh, c) ==
    IF hh.pending_rewrite_url = NONE
    THEN Res([hh EXCEPT !.update_step = "scan_old"], c,
             <<Log("No pending URL - scan old tag first", "error")>>)
    ELSE LET lk == IsTagLocked(c)
         IN IF lk.res
            THEN Res(hh, lk.c, <<Log("Locked tag - writing prevented", "error")>>)
            ELSE UpdateWrite(hh, lk.c)
UpdateWriteNew(hh, c) ==
    IF hh.pending_rewrite_url = NONE
    THEN Res([hh EXCEPT !.update_step = "scan_old"], c,
             <<Log("No pending URL - scan old tag first", "error")>>)
    ELSE LET lk == IsTagLocked(c)
             e == HasNdefContent(lk.c)
         IN IF lk.res
            THEN Res(hh, lk.c, <<Log("Locked tag - writing prevented", "error")>>)
            ELSE IF e.has
            THEN Res(hh, e.c, <<Log("Tag has data - use blank tag", "warning")>>)
            ELSE UpdateWrite(hh, e.c)

\* handle_update_mode
HandleUpdateMode(hh, st, c) ==
    IF hh.update_step = "scan_old" THEN UpdateScanOld(hh, st, c)
    ELSE IF hh.update_step = "write_new" THEN UpdateWriteNew(hh, c)
    ELSE Res(hh, c, <<>>)

\* NFCObserver.update for one added card, at time t: dispatch on the mode,
\* disconnect; an exception skips the disconnect and is logged
Caught(r) ==
    IF r.raised
    THEN [r EXCEPT !.out = @ \o <<Log("Tag communication error", "error")>>]
    ELSE r

Dispatch(hh, st, c, t) ==
    IF hh.mode = "read" THEN HandleReadMode(hh, st, c, t)
    ELSE IF hh.mode = "write" THEN HandleWriteMode(hh, st, c)
    ELSE IF hh.mode = "update" THEN HandleUpdateMode(hh, st, c)
    ELSE Res(hh, c, <<>>)

Update(hh, st, c, t) == Caught(Dispatch(hh, st, c, t))

\* the calls of log_callback among the callbacks made
LogsIn(out) == {i \in 1..Len(out) : out[i].cb = "log_callback"}

MinOf(S) == CHOOSE x \in S : \A y \in S : x <= y

\* the log call out[i] stands inside the try block of handle_write_mode or
\* of handle_update_mode, whose except clause logs "Write error"
InTry(hh, out, i) ==
    /\ out[i].a[1] # "Write error"
    /\ \/ hh.mode = "write" /\ out[i].a[1] \in {"Present next tag", "Write failed"}
       \/ hh.mode = "update" /\ i < Len(out)

\* the handler's result r when log_callback raises at its i-th callback: the
\* statements after the call are skipped, an enclosing except clause calls
\* log_callback again, and so does the except clause of update, from which
\* the exception leaves update
LogRaisedAt(hh, r, i) ==
    [h |-> IF r.out[i].a[1] = "No pending URL - scan old tag first" THEN hh
           ELSE r.h,
     c |-> r.c,
     out |-> SubSeq(r.out, 1, i)
             \o (IF InTry(hh, r.out, i) THEN <<Log("Write error", "error")>>
                 ELSE <<>>)
             \o <<Log("Tag communication error", "error")>>,
     raised |-> TRUE, escaped |-> TRUE, disconnected |-> FALSE]

\* NFCObserver.update for one added card whose handler gave r: the
\* disconnect, or the except clause; log_raises says that the collaborator's
\* log_callback raises
Observed(hh, r, log_raises) ==
    IF log_raises /\ LogsIn(r.out) # {}
    THEN LogRaisedAt(hh, r, MinOf(LogsIn(r.out)))
    ELSE [h |-> r.h, c |-> r.c, out |-> Caught(r).out, raised |-> r.raised,
          escaped |-> log_raises /\ r.raised, disconnected |-> ~r.raised]

\* createConnection and connect (T1, then the default protocol), then the
\* dispatch; a card that cannot be connected raises before any handler runs
Connected(hh, st, card, t) ==
    IF card.connect = "fail" THEN Raise(hh, Ctx(card.tag, card.f), <<>>)
    ELSE Dispatch(hh, st, Ctx(card.tag, card.f), t)

(***************************************************************************)
(* SpecW: write_ndef_message on its own, called with the record of a URL   *)
(* on a tag, under one injected fault, and stepped page write by page      *)
(* write.                                                                  *)
(***************************************************************************)
WUrls == {UrlA, UrlB, UrlOld, LongUrl(133), LongUrl(136), LongUrl(137),
          LongUrl(138), LongUrl(250)}

WTags == {BlankTag, RawTag,
          TagWith(CreateNdefRecord(UrlOld), FALSE, FALSE),
          TagWith(CreateNdefRecord(LongUrl(136)), FALSE, FALSE)}

WFaults ==
    {NoFault} \cup [at : 1..MaxWFaultAt, kind : {"status", "exc"}, sticky : BOOLEAN]

InitW ==
    /\ h = HandlerInit
    /\ settings = SettingsInit
    /\ now = StartTime
    /\ ev = EvNone
    /\ w = WIdle
    /\ fl = FIdle
    /\ pw = PIdle
    /\ ob = OIdle
    /\ call = CIdle
    /\ mon = MonInit

WCall ==
    /\ w.wm.pc = "idle"
    /\ \E url \in WUrls, tag \in WTags, f \in WFaults :
         /\ CreateNdefRecord(url) # NONE
         /\ w' = [wm |-> WBegin(Ctx(tag, f), CreateNdefRecord(url)),
                  url |-> url, tag0 |-> tag]
    /\ UNCHANGED <<h, settings, now, ev, fl, pw, ob, call, mon>>

WAdvance(pc) ==
    /\ w.wm.pc = pc
    /\ w' = [w EXCEPT !.wm = WStep(w.wm)]
    /\ UNCHANGED <<h, settings, now, ev, fl, pw, ob, call, mon>>

WFormatCCRead == WAdvance("cc_read")
WFormatCCWrite == WAdvance("cc_write")
WPlaceholder == WAdvance("placeholder")
WPage == WAdvance("pages")
WFinal == WAdvance("final")

WReturn ==
    /\ w.wm.pc = "done"
    /\ w' = WIdle
    /\ UNCHANGED <<h, settings, now, ev, fl, pw, ob, call, mon>>

NextW ==
    \/ WCall
    \/ WFormatCCRead
    \/ WFormatCCWrite
    \/ WPlaceholder
    \/ WPage
    \/ WFinal
    \/ WReturn

SpecW == InitW /\ [][NextW]_vars

(***************************************************************************)
(* The mode state machine: the collaborator's calls and the card events.   *)
(* A card event runs NFCObserver.update for the inserted card to its end   *)
(* and leaves its record in ev; Return is update returning, after which    *)
(* the next call or card is taken.                                         *)
(***************************************************************************)
\* set_read_mode
SetReadMode ==
    /\ ev.kind = "none"
    /\ h' = [h EXCEPT !.mode = "read", !.url_to_write = NONE, !.lock_tags = FALSE]
    /\ UNCHANGED <<settings, now, ev, w, fl, pw, ob, call, mon>>

\* set_write_mode
SetWriteModeBothFlags(url, lock_after_write, allow_overwrite, use_password, password) ==
    /\ ev.kind = "none"
    /\ h' = [h EXCEPT !.mode = "write", !.url_to_write = url,
                      !.lock_tags = lock_after_write,
                      !.use_password = use_password,
                      !.tag_password = password,
                      !.allow_overwrite = allow_overwrite]
    /\ UNCHANGED <<settings, now, ev, w, fl, pw, ob, call, mon>>
SetWriteMode(url, lock_after_write, allow_overwrite, use_password, password) ==
    /\ ev.kind = "none"
    /\ h' = [h EXCEPT !.mode = "write", !.url_to_write = url,
                      !.lock_tags = lock_after_write /\ ~use_password,
                      !.use_password = use_password,
                      !.tag_password = password,
                      !.allow_overwrite = allow_overwrite]
    /\ UNCHANGED <<settings, now, ev, w, fl, pw, ob, call, mon>>

\* the collaborator's batch configuration: batch_total = n, batch_count = 0
SetBatch(n) ==
    /\ ev.kind = "none"
    /\ h.mode = "write"
    /\ h' = [h EXCEPT !.batch_total = n, !.batch_count = 0]
    /\ UNCHANGED <<settings, now, ev, w, fl, pw, ob, call, mon>>

\* set_update_mode
SetUpdateMode ==
    /\ ev.kind = "none"
    /\ h' = [h EXCEPT !.mode = "update", !.url_to_write = NONE,
                      !.lock_tags = TRUE, !.allow_overwrite = FALSE,
                      !.update_step = "scan_old",
                      !.pending_rewrite_url = NONE,
                      !.pending_original_url = NONE]
    /\ UNCHANGED <<settings, now, ev, w, fl, pw, ob, call, mon>>

\* cancel_pending_update
CancelPendingUpdateKeepsUrls ==
    /\ ev.kind = "none"
    /\ h.mode = "update"
    /\ h' = [h EXCEPT !.update_step = "scan_old"]
    /\ UNCHANGED <<settings, now, ev, w, fl, pw, ob, call, mon>>
CancelPendingUpdate ==
    /\ ev.kind = "none"
    /\ h.mode = "update"
    /\ h' = [h EXCEPT !.update_step = "scan_old",
                      !.pending_rewrite_url = NONE,
                      !.pending_original_url = NONE]
    /\ UNCHANGED <<settings, now, ev, w, fl, pw, ob, call, mon>>

\* the scan result the collaborator was handed by update_scan_callback
Scanned == {e \in {ev.out[i] : i \in 1..Len(ev.out)} : e.cb = "update_scan_callback"}

\* confirm_update_write on the scan just reported, with the target the user
\* left in the input: the suggestion, or a URL typed instead
ConfirmUpdateWrite(typed) ==
    /\ ev.kind = "update"
    /\ \E e \in Scanned :
         \E target \in {typed} \cup (IF e.a[2] # NONE THEN {e.a[2]} ELSE {}) :
            h' = [h EXCEPT !.pending_original_url = e.a[1],
                           !.pending_rewrite_url = target,
                           !.update_step = "write_new"]
    /\ ev' = EvNone
    /\ UNCHANGED <<settings, now, w, fl, pw, ob, call, mon>>

\* time passes
Tick ==
    /\ ev.kind = "none"
    /\ now < MaxTime
    /\ now' = now + 1
    /\ UNCHANGED <<h, settings, ev, w, fl, pw, ob, call, mon>>

\* a card is inserted: NFCObserver.update(observable, ([card], []))
Presented(tag, f) ==
    /\ ev.kind = "none"
    /\ \E r \in {Update(h, settings, Ctx(tag, f), now)} :
          /\ h' = r.h
          /\ ev' = [kind |-> h.mode, before |-> h, tag0 |-> tag, c |-> r.c,
                    out |-> r.out, at |-> now, raised |-> r.raised]
    /\ UNCHANGED <<settings, now, w, fl, pw, ob, call, mon>>

\* card events while the counters are below their bound
CardInserted(tag, f) ==
    /\ h.cards_processed < MaxCount
    /\ Presented(tag, f)

\* update returns
Return ==
    /\ ev.kind # "none"
    /\ ev' = EvNone
    /\ UNCHANGED <<h, settings, now, w, fl, pw, ob, call, mon>>

(***************************************************************************)
(* Tags and faults of the card events.                                     *)
(***************************************************************************)
\* an NDEF-formatted tag holding the empty message 03 00 FE
EmptyMsg == <<3, 0, 254, 0>>
EmptyTag == TagWith(EmptyMsg, FALSE, FALSE)

Password == <<112, 97, 115, 115>>                     \* pass

ETags ==
    {EmptyTag,
     TagWith(CreateNdefRecord(UrlOld), FALSE, FALSE),
     TagWith(CreateNdefRecord(UrlA), FALSE, FALSE),
     TagWith(CreateNdefRecord(TextTel), FALSE, FALSE),
     TagWith(CreateNdefRecord(UrlOld), TRUE, FALSE),
     TagWith(EmptyMsg, TRUE, FALSE),
     TagWith(EmptyMsg, FALSE, TRUE)}

\* no fault; one failing operation, answering a status or raising; the tag
\* leaving the field, after which every operation raises
EFaults ==
    {NoFault}
    \cup [at : 1..MaxFaultAt, kind : {"status", "exc"}, sticky : {FALSE}]
    \cup [at : 1..MaxFaultAt, kind : {"exc"}, sticky : {TRUE}]

(***************************************************************************)
(* SpecWrite: the collaborator configures writes and batches; cards are    *)
(* presented.                                                              *)
(***************************************************************************)
InitWith(S) ==
    /\ h = HandlerInit
    /\ settings \in S
    /\ now = StartTime
    /\ ev = EvNone
    /\ w = WIdle
    /\ fl = FIdle
    /\ pw = PIdle
    /\ ob = OIdle
    /\ call = CIdle
    /\ mon = MonInit

WriteSettings == [source_pattern : {"default"}, target_base_url : {DefaultTarget},
                  verify_after_write : BOOLEAN]

InitWrite == InitWith(WriteSettings)

\* lock_after_write, allow_overwrite, use_password, password
WriteOptions ==
    (BOOLEAN \X BOOLEAN \X {FALSE} \X {NONE})
    \cup (BOOLEAN \X {FALSE} \X {TRUE} \X {Password, NONE})

WSetWriteMode ==
    \E url \in {UrlA}, o \in WriteOptions :
        SetWriteMode(url, o[1], o[2], o[3], o[4])

WSetBatch == \E n \in 1..MaxBatch : SetBatch(n)

ECardInserted == \E tag \in ETags, f \in EFaults : CardInserted(tag, f)

NextWrite ==
    \/ WSetWriteMode
    \/ WSetBatch
    \/ ECardInserted
    \/ Return

SpecWrite == InitWrite /\ [][NextWrite]_vars

(***************************************************************************)
(* SpecRead: cards are presented in read mode while time passes.           *)
(***************************************************************************)
DefaultSettings == {SettingsInit}

InitRead == InitWith(DefaultSettings)

NextRead ==
    \/ SetReadMode
    \/ Tick
    \/ ECardInserted
    \/ Return

SpecRead == InitRead /\ [][NextRead]_vars

(***************************************************************************)
(* SpecUpdate: the update workflow under each kind of rewrite rule.  The   *)
(* collaborator confirms a scan with the suggestion or with a typed URL,   *)
(* or cancels.                                                             *)
(***************************************************************************)
UpdateSettings ==
    [source_pattern : {"default", "nogroup", "invalid", "empty"},
     target_base_url : {DefaultTarget}, verify_after_write : {TRUE}]

InitUpdate == InitWith(UpdateSettings)

\* the targets a user types: a short URL, and one whose record exceeds the
\* one-byte TLV length
UpdateTargets == {UrlB, LongUrl(MaxLengthByte - 4)}

UConfirmUpdateWrite == \E typed \in UpdateTargets : ConfirmUpdateWrite(typed)

NextUpdate ==
    \/ SetUpdateMode
    \/ UConfirmUpdateWrite
    \/ CancelPendingUpdate
    \/ ECardInserted
    \/ Return

SpecUpdate == InitUpdate /\ [][NextUpdate]_vars

(***************************************************************************)
(* Spec: the three modes together.                                         *)
(***************************************************************************)
Init == InitWith(DefaultSettings)

\* lock_after_write, allow_overwrite, use_password, password
Options == {<<TRUE, FALSE, FALSE, NONE>>, <<FALSE, TRUE, FALSE, NONE>>,
            <<FALSE, FALSE, TRUE, Password>>}

SSetWriteMode ==
    \E url \in {UrlA}, o \in Options : SetWriteMode(url, o[1], o[2], o[3], o[4])

\* one failing operation, answering a status or raising
Faults ==
    {NoFault} \cup [at : 1..MaxFaultAt, kind : {"status", "exc"}, sticky : {FALSE}]

SCardInserted == \E tag \in ETags, f \in Faults : CardInserted(tag, f)

\* the collaborator asks for a batch of MaxBatch tags
SSetBatch == SetBatch(MaxBatch)

Next ==
    \/ SetReadMode
    \/ SSetWriteMode
    \/ SSetBatch
    \/ SetUpdateMode
    \/ UConfirmUpdateWrite
    \/ CancelPendingUpdate
    \/ SCardInserted
    \/ Return

Spec == Init /\ [][Next]_vars

(***************************************************************************)
(* Properties of write_ndef_message and the codec (SpecW).                 *)
(***************************************************************************)
WDone == w.wm.pc = "done"
WTag == w.wm.c.tag
WOps == w.wm.c.ops
WFault == w.wm.c.f

\* the i-th transport operation of the call was hit by the fault
WHit(i) ==
    /\ WFault.at > 0
    /\ IF WFault.sticky THEN i >= WFault.at ELSE i = WFault.at

\* exactly one page write of the data area failed, and nothing else did
WSingleWriteFailure ==
    /\ WDone
    /\ WFault.at > 0 /\ ~WFault.sticky
    /\ Len(WOps) >= WFault.at
    /\ WOps[WFault.at][1] = "w"
    /\ WOps[WFault.at][2] >= FirstDataPage

\* the failed write is the placeholder write: no data page was written before
WPlaceholderFailed ==
    /\ WSingleWriteFailure
    /\ \A i \in 1..Len(WOps) : (WOps[i][1] = "w" /\ WOps[i][2] >= FirstDataPage)
                                  => i = WFault.at

\* every _pcsc_write_page call of the call returned True
WAllWritesSucceeded ==
    \A i \in 1..Len(WOps) : WOps[i][1] = "w" => ~WHit(i)

C2_SuccessReadsBack ==
    (WDone /\ WAllWritesSucceeded) => (w.wm.ret /\ Decoded(WTag) = w.url)

\* C3 as stated: the tag holding the pages of create_ndef_record(u) decodes
\* to u, for every u the encoder accepts.
C3_RoundTrip ==
    w.wm.pc # "idle" => Decoded(TagWith(w.wm.msg, FALSE, FALSE)) = w.url

\* the TLV header and the NDEF message lie within pages 4..39
FitsDataArea(msg) == 2 + msg[2] <= 4 * (LastDataPage - FirstDataPage + 1)

\* C3, amended: ... for every u whose TLV header and NDEF message fit in the
\* 144 bytes of pages 4..39.
C3_RoundTripWithinDataArea ==
    (w.wm.pc # "idle" /\ FitsDataArea(w.wm.msg)) =>
        Decoded(TagWith(w.wm.msg, FALSE, FALSE)) = w.url

\* a URL whose message ends exactly with the data area round-trips
C3_Witness ==
    /\ w.wm.pc # "idle"
    /\ 2 + w.wm.msg[2] = 4 * (LastDataPage - FirstDataPage + 1)
    /\ Decoded(TagWith(w.wm.msg, FALSE, FALSE)) = w.url


(***************************************************************************)
(* Reading the record of a card event.                                     *)
(***************************************************************************)
\* the i-th transport operation of the event met the fault
OpFailed(c, i) ==
    c.f.at > 0 /\ (IF c.f.sticky THEN i >= c.f.at ELSE i = c.f.at)

\* the page writes issued during the event
Writes(ops) == {i \in 1..Len(ops) : ops[i][1] = "w"}

\* the reads of data pages issued in one run from operation k on
DataReadsFrom(ops, k) ==
    {i \in k..Len(ops) : \A j \in k..i : ops[j][1] = "r" /\ ops[j][2] >= FirstDataPage}

\* the event began by reading the lock page, and that read succeeded
LockReadOk(e) ==
    Len(e.c.ops) >= 1 /\ e.c.ops[1] = <<"r", LockPage>> /\ ~OpFailed(e.c, 1)

\* the reads of the content check that follows the lock check succeeded
ContentReadOk(e) == \A i \in DataReadsFrom(e.c.ops, 2) : ~OpFailed(e.c, i)

\* the tag holds a record that decodes to a valid URL
HoldsValidUrl(tag) == Decoded(tag) # NONE /\ IsValidUrl(Decoded(tag))

\* the writes of the first data page: the placeholder header, then the
\* final header
HeaderWrites(ops) == {i \in 1..Len(ops) : ops[i] = <<"w", FirstDataPage>>}

MaxOf(S) == CHOOSE x \in S : \A y \in S : y <= x

\* write_ndef_message got as far as the final header and that write
\* succeeded: it returned True
WriteReportedSuccess(e) ==
    /\ Cardinality(HeaderWrites(e.c.ops)) = 2
    /\ ~OpFailed(e.c, MaxOf(HeaderWrites(e.c.ops)))

\* what the immediate read-back that follows the final header returned
ReadBack(e) ==
    ReadNdefMessage([tag |-> e.c.tag,
                     ops |-> SubSeq(e.c.ops, 1, MaxOf(HeaderWrites(e.c.ops))),
                     f |-> e.c.f]).url

\* callbacks of the event
Emitted(e, cb) == {i \in 1..Len(e.out) : e.out[i].cb = cb}

WriteEvent == ev.kind = "write" /\ ev.before.url_to_write # NONE

Blocked == ev.out = <<WriteCb(<<"Write blocked: tag has existing data">>)>>

StartsWritten ==
    \E i \in Emitted(ev, "write_callback") : ev.out[i].a[1][1] = "Written"

CountersUnchanged ==
    /\ h.cards_processed = ev.before.cards_processed
    /\ h.batch_count = ev.before.batch_count

(***************************************************************************)
(* Properties of write mode (SpecWrite).                                   *)
(***************************************************************************)
C4Case == WriteEvent /\ ~PhysLocked(ev.tag0) /\ HoldsValidUrl(ev.tag0)

C4BlockedCleanly ==
    /\ Blocked
    /\ Writes(ev.c.ops) = {}
    /\ ev.c.tag = ev.tag0
    /\ CountersUnchanged

C4Overwrites ==
    /\ ~Blocked
    /\ Writes(ev.c.ops) # {}
    /\ (WriteReportedSuccess(ev) /\ ReadBack(ev) = ev.before.url_to_write
          => StartsWritten /\ Decoded(ev.c.tag) = ev.before.url_to_write)

GenericLocked == WriteCb(<<"Locked tag detected">>)

C7_SilentReject ==
    WriteEvent /\ WriteReportedSuccess(ev)
      /\ ReadBack(ev) # ev.before.url_to_write
    => /\ ev.out = <<WriteCb(<<"Locked tag - writing prevented">>)>>
       /\ \A i \in Writes(ev.c.ops) : i <= MaxOf(HeaderWrites(ev.c.ops))
       /\ \A p \in {LockPage, CFG0Page, CFG1Page, PwdPage, PackPage} :
             ev.c.tag.pages[p] = ev.tag0.pages[p]
       /\ CountersUnchanged

C7_Witness ==
    /\ WriteEvent /\ WriteReportedSuccess(ev)
    /\ ev.tag0.silent
    /\ ev.before.lock_tags
    /\ ev.before.batch_total > 1
    /\ ReadBack(ev) # ev.before.url_to_write
    /\ ev.out = <<WriteCb(<<"Locked tag - writing prevented">>)>>

(***************************************************************************)
(* Properties of the lock check (Spec).                                    *)
(***************************************************************************)
ScanEvent == ev.kind = "update" /\ ev.before.update_step = "scan_old"

WriteNewEvent ==
    /\ ev.kind = "update"
    /\ ev.before.update_step = "write_new"
    /\ ev.before.pending_rewrite_url # NONE

LockReadBefore(ops, i) == \E j \in 1..(i - 1) : ops[j] = <<"r", LockPage>>

DataReads(ops) ==
    {i \in 1..Len(ops) : ops[i][1] = "r" /\ ops[i][2] >= FirstDataPage}

C6Order ==
    /\ \A i \in Writes(ev.c.ops) : LockReadBefore(ev.c.ops, i)
    /\ (ev.kind = "write" =>
          \A i \in DataReads(ev.c.ops) : LockReadBefore(ev.c.ops, i))

ReadEvent == ev.kind = "read"

\* the card came less than read_cooldown after the last successful read
Debounced == ev.at - ev.before.last_read_time < ReadCooldown

NoOpFailed(e) == \A i \in 1..Len(e.c.ops) : ~OpFailed(e.c, i)

\* C8: last_read_time is the time of the last read_callback; a read-mode
\* card event less than 3 seconds after it does nothing at all (no tag read,
\* no callback, no state change), and one that comes later reads the tag and,
\* the read succeeding, calls read_callback once and restarts the window
C8_Debounce ==
    ReadEvent =>
        /\ (Debounced => ev.out = <<>> /\ ev.c.ops = <<>> /\ h = ev.before)
        /\ (~Debounced => ev.c.ops # <<>>)
        /\ (~Debounced /\ NoOpFailed(ev) /\ Decoded(ev.tag0) # NONE
              => ev.out = <<ReadCb(Decoded(ev.tag0))>>)
        /\ Cardinality(Emitted(ev, "read_callback")) <= 1
        /\ h.last_read_time =
              IF Emitted(ev, "read_callback") # {} THEN ev.at
              ELSE ev.before.last_read_time

C8_Witness ==
    /\ ReadEvent
    /\ ev.before.last_read_time >= StartTime
    /\ ev.at = ev.before.last_read_time + ReadCooldown - 1
    /\ HoldsValidUrl(ev.tag0)
    /\ ev.c.f = NoFault
    /\ ev.out = <<>>

(***************************************************************************)
(* Properties of update mode (SpecUpdate).                                 *)
(***************************************************************************)
\* what the scan's read_ndef_message returned
ScanRead == ReadNdefMessage(Ctx(ev.tag0, ev.c.f)).url

\* the suggestions a scan of url may carry: none, or the target base with
\* one separator followed by the text the rule captured
Suggestions(url) ==
    {NONE} \cup
    (IF MatchDefault(url) # NONE
     THEN {RStrip(settings.target_base_url, Slash) \o <<Slash>> \o MatchDefault(url)}
     ELSE {})

\* the event made one callback, cb
Sole(e, cb) == Len(e.out) = 1 /\ e.out[1].cb = cb

\* C9: a scan_old card event changes neither update_step nor the pending
\* URLs and writes no page; it logs a warning when no URL was decoded, and
\* otherwise emits update_scan_callback(original, suggested) with the
\* rewritten URL or the empty string as the suggestion
C9_ScanReports ==
    ScanEvent =>
        /\ h.update_step = ev.before.update_step
        /\ h.pending_original_url = ev.before.pending_original_url
        /\ h.pending_rewrite_url = ev.before.pending_rewrite_url
        /\ Writes(ev.c.ops) = {}
        /\ IF ScanRead = NONE
           THEN /\ Sole(ev, "log_callback")
                /\ ev.out[1] = Log("Empty tag - scan a tag with URL", "warning")
           ELSE /\ Sole(ev, "update_scan_callback")
                /\ ev.out[1].a[1] = ScanRead
                /\ ev.out[1].a[2] \in Suggestions(ScanRead)
                /\ (settings.source_pattern = "default"
                      /\ MatchDefault(ScanRead) # NONE => ev.out[1].a[2] # NONE)

\* C10: a write_new card event on an unlocked tag without valid content, whose
\* write succeeded and whose read-back equals the pending URL, emits
\* update_callback(original, pending, True) and nothing else, and leaves
\* update_step at scan_old with both pending URLs cleared; a card event at
\* scan_old writes nothing and emits no update_callback
C10_UpdateCompletes ==
    /\ (WriteNewEvent /\ ~PhysLocked(ev.tag0) /\ ~HoldsValidUrl(ev.tag0)
          /\ WriteReportedSuccess(ev)
          /\ ReadBack(ev) = ev.before.pending_rewrite_url
        => /\ ev.out = <<UpdateCb(ev.before.pending_original_url,
                                  ev.before.pending_rewrite_url, TRUE)>>
           /\ h.update_step = "scan_old"
           /\ h.pending_original_url = NONE
           /\ h.pending_rewrite_url = NONE)
    /\ (ScanEvent =>
          Writes(ev.c.ops) = {} /\ Emitted(ev, "update_callback") = {})

C10_Witness ==
    /\ WriteNewEvent
    /\ ev.tag0 = EmptyTag
    /\ ev.before.pending_original_url = UrlOld
    /\ ev.before.pending_rewrite_url = DefaultTarget \o <<120>>
    /\ WriteReportedSuccess(ev)
    /\ ev.out = <<UpdateCb(UrlOld, DefaultTarget \o <<120>>, TRUE)>>
    /\ h.update_step = "scan_old"

\* the write_new step found the tag unlocked and without valid content, and
\* went on to write
AttemptedWrite ==
    /\ WriteNewEvent
    /\ \E lk \in {IsTagLocked(Ctx(ev.tag0, ev.c.f))} :
          ~lk.res /\ ~HasNdefContent(lk.c).has

\* the write of the event succeeded: write_ndef_message returned True and the
\* read-back equals the pending URL
UpdateWriteSucceeded ==
    WriteReportedSuccess(ev) /\ ReadBack(ev) = ev.before.pending_rewrite_url

CursorKept ==
    /\ h.update_step = ev.before.update_step
    /\ h.pending_original_url = ev.before.pending_original_url
    /\ h.pending_rewrite_url = ev.before.pending_rewrite_url

\* C11: when the write of the write_new step fails (write_ndef_message
\* reports failure, the read-back differs from the pending URL, or the write
\* raises), update_callback(original, pending, False) is emitted exactly once
\* and update_step stays write_new with both pending URLs unchanged
C11_FailedWriteKeepsPending ==
    AttemptedWrite /\ ~UpdateWriteSucceeded
    => /\ Cardinality(Emitted(ev, "update_callback")) = 1
       /\ \A i \in Emitted(ev, "update_callback") :
             ev.out[i] = UpdateCb(ev.before.pending_original_url,
                                  ev.before.pending_rewrite_url, FALSE)
       /\ h.update_step = "write_new"
       /\ CursorKept
       /\ h.cards_processed = ev.before.cards_processed

C11_Witness ==
    /\ AttemptedWrite
    /\ ev.tag0.silent
    /\ WriteReportedSuccess(ev)
    /\ ReadBack(ev) # ev.before.pending_rewrite_url
    /\ ev.out = <<Log("Locked tag - writing prevented", "error"),
                  UpdateCb(UrlOld, UrlB, FALSE)>>
    /\ h.update_step = "write_new" /\ h.pending_rewrite_url = UrlB

\* the three ways of failing are all met
C11_RaisedWitness ==
    /\ AttemptedWrite
    /\ ev.c.ops # <<>> /\ Writes(ev.c.ops) = {}
    /\ ev.out = <<Log("Write error", "error"),
                  UpdateCb(UrlOld, LongUrl(MaxLengthByte - 4), FALSE)>>

C11_WriteFailedWitness ==
    /\ AttemptedWrite
    /\ ev.out = <<Log("Write failed", "error"), UpdateCb(UrlOld, UrlB, FALSE)>>

\* the write_new event logged once, wrote nothing, reported nothing and left
\* the handler and the tag as they were
RefusedQuietly(text, level) ==
    /\ ev.out = <<Log(text, level)>>
    /\ Writes(ev.c.ops) = {}
    /\ ev.c.tag = ev.tag0
    /\ Emitted(ev, "update_callback") = {}
    /\ h.update_step = "write_new"
    /\ CursorKept
    /\ h = ev.before

C12_LockedWitness ==
    /\ WriteNewEvent
    /\ PhysLocked(ev.tag0) /\ LockReadOk(ev)
    /\ RefusedQuietly("Locked tag - writing prevented", "error")

(***************************************************************************)
(* SpecFlight: update mode with the write_new card event taken statement   *)
(* by statement on the card-event thread, while the collaborator's thread  *)
(* may call cancel_pending_update.  The event reads the handler's fields   *)
(* each time the code names them.                                          *)
(***************************************************************************)
FTags == {EmptyTag,
          TagWith(CreateNdefRecord(UrlA), FALSE, FALSE),
          TagWith(EmptyMsg, TRUE, FALSE),
          TagWith(EmptyMsg, FALSE, TRUE)}

FFaults ==
    {NoFault} \cup [at : 1..MaxFaultAt, kind : {"status"}, sticky : {FALSE}]

InitFlight == InitWith(DefaultSettings)

\* set_update_mode, between card events
FSetUpdateMode == fl.pc = "idle" /\ SetUpdateMode

\* a card is presented at scan_old: the scan, taken whole
FScan ==
    /\ fl.pc = "idle"
    /\ h.mode = "update" /\ h.update_step = "scan_old"
    /\ \E tag \in {TagWith(CreateNdefRecord(UrlOld), FALSE, FALSE)} :
          CardInserted(tag, NoFault)

\* a card is presented and handle_update_mode finds update_step = write_new
FBegin ==
    /\ ev.kind = "none" /\ fl.pc = "idle"
    /\ h.mode = "update" /\ h.update_step = "write_new"
    /\ h.cards_processed < MaxCount
    /\ \E tag \in FTags, f \in FFaults :
          fl' = [FIdle EXCEPT !.pc = "pending", !.before = h, !.tag0 = tag,
                              !.c = Ctx(tag, f)]
    /\ UNCHANGED <<h, settings, now, ev, w, pw, ob, call, mon>>

\* if not handler.pending_rewrite_url
FPendingUnchecked ==
    /\ fl.pc = "pending"
    /\ fl' = [fl EXCEPT !.pc = "locked", !.seen = h.pending_rewrite_url]
    /\ UNCHANGED <<h, settings, now, ev, w, pw, ob, call, mon>>
FPending ==
    /\ fl.pc = "pending"
    /\ IF h.pending_rewrite_url = NONE
       THEN /\ fl' = [fl EXCEPT !.pc = "done", !.seen = NONE,
                        !.out = @ \o <<Log("No pending URL - scan old tag first",
                                           "error")>>]
            /\ h' = [h EXCEPT !.update_step = "scan_old"]
       ELSE /\ fl' = [fl EXCEPT !.pc = "locked", !.seen = h.pending_rewrite_url]
            /\ h' = h
    /\ UNCHANGED <<settings, now, ev, w, pw, ob, call, mon>>

\* if handler.is_tag_locked(connection)
FLocked ==
    /\ fl.pc = "locked"
    /\ \E lk \in {IsTagLocked(fl.c)} :
          fl' = IF lk.res
                THEN [fl EXCEPT !.pc = "done", !.c = lk.c,
                        !.out = @ \o <<Log("Locked tag - writing prevented",
                                           "error")>>]
                ELSE [fl EXCEPT !.pc = "content", !.c = lk.c]
    /\ UNCHANGED <<h, settings, now, ev, w, pw, ob, call, mon>>

\* has_existing, _ = handler._has_ndef_content(connection)
FContent ==
    /\ fl.pc = "content"
    /\ \E e \in {HasNdefContent(fl.c)} :
          fl' = IF e.has
                THEN [fl EXCEPT !.pc = "done", !.c = e.c,
                        !.out = @ \o <<Log("Tag has data - use blank tag",
                                           "warning")>>]
                ELSE [fl EXCEPT !.pc = "write", !.c = e.c]
    /\ UNCHANGED <<h, settings, now, ev, w, pw, ob, call, mon>>

\* what follows create_ndef_record: the record is written, or the exception
\* is on its way to the handler
FWritten(msg, url) ==
    IF msg = NONE
    THEN [fl EXCEPT !.pc = "failed", !.log = "Write error", !.wrote = url]
    ELSE LET wr == WriteNdefMessage(fl.c, msg)
         IN IF wr.ok
            THEN [fl EXCEPT !.pc = "readback", !.c = wr.c, !.wrote = url]
            ELSE [fl EXCEPT !.pc = "failed", !.log = "Write failed",
                            !.c = wr.c, !.wrote = url]

\* create_ndef_record(handler.pending_rewrite_url) and write_ndef_message;
\* ndef.UriRecord(None) either raises or stands for the empty URI
FWrite ==
    /\ fl.pc = "write"
    /\ \E raises \in (IF h.pending_rewrite_url = NONE THEN BOOLEAN ELSE {FALSE}) :
          fl' = FWritten(IF raises THEN NONE
                         ELSE CreateNdefRecord(h.pending_rewrite_url),
                         h.pending_rewrite_url)
    /\ UNCHANGED <<h, settings, now, ev, w, pw, ob, call, mon>>

\* written_url = read_ndef_message(connection);
\* if written_url != handler.pending_rewrite_url
FReadBack ==
    /\ fl.pc = "readback"
    /\ \E rb \in {ReadNdefMessage(fl.c)} :
          fl' = IF rb.url # h.pending_rewrite_url
                THEN [fl EXCEPT !.pc = "failed", !.c = rb.c,
                                !.log = "Locked tag - writing prevented"]
                ELSE [fl EXCEPT !.pc = "lock", !.c = rb.c]
    /\ UNCHANGED <<h, settings, now, ev, w, pw, ob, call, mon>>

\* the failure branches: the log, then update_callback(..., False)
FFailed ==
    /\ fl.pc = "failed"
    /\ fl' = [fl EXCEPT !.pc = "done",
                !.out = @ \o <<Log(fl.log, "error"),
                               UpdateCb(h.pending_original_url,
                                        h.pending_rewrite_url, FALSE)>>]
    /\ UNCHANGED <<h, settings, now, ev, w, pw, ob, call, mon>>

\* handler.lock_tag_permanently(connection)
FLock ==
    /\ fl.pc = "lock"
    /\ fl' = [fl EXCEPT !.pc = "report", !.c = LockTagPermanently(fl.c).c]
    /\ UNCHANGED <<h, settings, now, ev, w, pw, ob, call, mon>>

\* update_callback(..., True), the counter and the reset of the cursor
FReport ==
    /\ fl.pc = "report"
    /\ fl' = [fl EXCEPT !.pc = "done",
                !.out = @ \o <<UpdateCb(h.pending_original_url,
                                        h.pending_rewrite_url, TRUE)>>]
    /\ h' = [h EXCEPT !.cards_processed = @ + 1,
                      !.update_step = "scan_old",
                      !.pending_rewrite_url = NONE,
                      !.pending_original_url = NONE]
    /\ UNCHANGED <<settings, now, ev, w, pw, ob, call, mon>>

\* update returns
FReturn ==
    /\ fl.pc = "done"
    /\ fl' = FIdle
    /\ UNCHANGED <<h, settings, now, ev, w, pw, ob, call, mon>>

\* cancel_pending_update, called on the collaborator's thread at any time
FCancel ==
    /\ ev.kind = "none"
    /\ h.mode = "update"
    /\ h' = [h EXCEPT !.update_step = "scan_old",
                      !.pending_rewrite_url = NONE,
                      !.pending_original_url = NONE]
    /\ fl' = [fl EXCEPT !.cancelled = @ \/ fl.pc # "idle"]
    /\ UNCHANGED <<settings, now, ev, w, pw, ob, call, mon>>

NextFlight ==
    \/ FSetUpdateMode
    \/ FScan
    \/ UConfirmUpdateWrite
    \/ Return
    \/ FBegin
    \/ FPending
    \/ FLocked
    \/ FContent
    \/ FWrite
    \/ FReadBack
    \/ FFailed
    \/ FLock
    \/ FReport
    \/ FReturn
    \/ FCancel

SpecFlight == InitFlight /\ [][NextFlight]_vars

(***************************************************************************)
(* Properties of the write_new event in flight (SpecFlight).               *)
(***************************************************************************)
FDone == fl.pc = "done"

\* taken without a cancellation, the statements of the event add up to the
\* event taken whole
FlightAgrees ==
    FDone /\ ~fl.cancelled =>
        \E r \in {UpdateWriteNew(fl.before, Ctx(fl.tag0, fl.c.f))} :
            r.h = h /\ r.c = fl.c /\ r.out = fl.out

\* C13: a write_new card event that finds no pending rewrite URL emits the
\* error log and nothing else, does no tag I/O, and leaves update_step at
\* scan_old
C13_NoPendingResets ==
    FDone /\ fl.seen = NONE
    => /\ fl.out = <<Log("No pending URL - scan old tag first", "error")>>
       /\ fl.c.ops = <<>>
       /\ fl.c.tag = fl.tag0
       /\ h.update_step = "scan_old"
       /\ h.cards_processed = fl.before.cards_processed

C13_Witness ==
    /\ FDone /\ fl.seen = NONE
    /\ fl.before.update_step = "write_new"
    /\ fl.before.pending_rewrite_url = UrlB
    /\ fl.tag0 = EmptyTag
    /\ fl.out = <<Log("No pending URL - scan old tag first", "error")>>
    /\ fl.c.ops = <<>>
    /\ h.update_step = "scan_old"

\* C14: a write_new card event during which cancel_pending_update is called
\* goes as it would have gone without the call: the URL written, the
\* read-back comparison and the arguments of update_callback are those of the
\* pending state the event started with
C14_InFlightUnaffected ==
    FDone =>
        /\ \E r \in {UpdateWriteNew(fl.before, Ctx(fl.tag0, fl.c.f))} :
              r.c = fl.c /\ r.out = fl.out
        /\ (Writes(fl.c.ops) # {} => fl.wrote = fl.before.pending_rewrite_url)

\* a cancellation between the write and the read-back comparison: the
\* comparison is made with None and update_callback(None, None, False) is
\* reported for a tag that holds the pending URL
C14_CancelledMidFlight ==
    /\ FDone /\ fl.cancelled
    /\ fl.tag0 = EmptyTag /\ fl.c.f = NoFault
    /\ fl.wrote = UrlB /\ Decoded(fl.c.tag) = UrlB
    /\ fl.out = <<Log("Locked tag - writing prevented", "error"),
                  UpdateCb(NONE, NONE, FALSE)>>

\* a cancellation before the record is created, ndef.UriRecord(None) standing
\* for the empty URI: the tag is written with an empty record, locked, and
\* update_callback(None, None, True) is reported
C14_CancelledBeforeWrite ==
    /\ FDone /\ fl.cancelled
    /\ fl.tag0 = EmptyTag /\ fl.c.f = NoFault
    /\ fl.wrote = NONE /\ PhysLocked(fl.c.tag)
    /\ fl.out = <<UpdateCb(NONE, NONE, TRUE)>>

(***************************************************************************)
(* Properties of the mode field (Spec).                                    *)
(***************************************************************************)
\* the step is a card event
CardEventStep == ev.kind = "none" /\ ev'.kind # "none"

\* the fields a card event leaves alone
ConfigurationKept ==
    /\ h'.mode = h.mode
    /\ h'.url_to_write = h.url_to_write
    /\ h'.batch_total = h.batch_total
    /\ h'.lock_tags = h.lock_tags
    /\ h'.use_password = h.use_password
    /\ h'.tag_password = h.tag_password
    /\ h'.allow_overwrite = h.allow_overwrite

CursorOnlyToScanOld ==
    \/ /\ h'.update_step = h.update_step
       /\ h'.pending_original_url = h.pending_original_url
       /\ h'.pending_rewrite_url = h.pending_rewrite_url
    \/ /\ h'.update_step = "scan_old"
       /\ h'.pending_original_url \in {NONE, h.pending_original_url}
       /\ h'.pending_rewrite_url \in {NONE, h.pending_rewrite_url}

\* the step is a call of set_read_mode, set_write_mode or set_update_mode
SetterStep ==
    /\ ev.kind = "none" /\ ev'.kind = "none"
    /\ \/ h' = [h EXCEPT !.mode = "read", !.url_to_write = NONE,
                          !.lock_tags = FALSE]
       \/ /\ h'.mode = "write" /\ h'.url_to_write # NONE
          /\ h'.update_step = h.update_step
       \/ h' = [h EXCEPT !.mode = "update", !.url_to_write = NONE,
                          !.lock_tags = TRUE, !.allow_overwrite = FALSE,
                          !.update_step = "scan_old",
                          !.pending_rewrite_url = NONE,
                          !.pending_original_url = NONE]

\* C15: mode changes only in a call of set_read_mode, set_write_mode or
\* set_update_mode; a card event, whatever the mode and the outcome, leaves
\* mode and the write configuration alone, and moves the update cursor only
\* to scan_old
C15_ModeOnlyBySetters ==
    [][/\ (CardEventStep => ConfigurationKept /\ CursorOnlyToScanOld)
       /\ (h'.mode # h.mode => SetterStep)]_vars

C15_Witness ==
    /\ WriteNewEvent
    /\ ev.before.mode = "update" /\ h.mode = "update"
    /\ ev.before.update_step = "write_new" /\ h.update_step = "scan_old"
    /\ h.pending_rewrite_url = NONE
    /\ h.cards_processed = ev.before.cards_processed + 1

(***************************************************************************)
(* SpecObserve: NFCObserver.update called with one or more added cards,    *)
(* taken card by card, with a log_callback that may raise.                 *)
(***************************************************************************)
\* the most cards one insertion event adds
MaxCards == 2

ObserveSettings ==
    [source_pattern : {"default", "nogroup"}, target_base_url : {DefaultTarget},
     verify_after_write : {TRUE}]

InitObserve == InitWith(ObserveSettings)

\* a card: its tag, the fault of its transport and whether it connects
OCards ==
    [tag : {EmptyTag, TagWith(CreateNdefRecord(UrlOld), FALSE, FALSE)},
     f : {NoFault, [at |-> 1, kind |-> "exc", sticky |-> FALSE]},
     connect : {"ok", "fail"}]

OCardLists == UNION {[1..n -> OCards] : n \in 1..MaxCards}

OSetReadMode == ob.pc = "idle" /\ SetReadMode
OSetWriteMode == ob.pc = "idle" /\ SSetWriteMode
OSetUpdateMode == ob.pc = "idle" /\ SetUpdateMode

\* update(observable, (addedcards, removedcards))
OInsert ==
    /\ ev.kind = "none" /\ ob.pc = "idle"
    /\ \E cards \in OCardLists, log_raises \in BOOLEAN :
          ob' = [pc |-> "loop", cards |-> cards, log_raises |-> log_raises,
                 open |-> 0]
    /\ UNCHANGED <<h, settings, now, ev, w, fl, pw, call, mon>>

\* one turn of the loop over addedcards
OCard ==
    /\ ev.kind = "none" /\ ob.pc = "loop" /\ ob.cards # <<>>
    /\ h.cards_processed < MaxCount
    /\ \E r \in {Observed(h, Connected(h, settings, Head(ob.cards), now),
                          ob.log_raises)} :
          /\ h' = r.h
          /\ ev' = [kind |-> h.mode, before |-> h, tag0 |-> Head(ob.cards).tag,
                    c |-> r.c, out |-> r.out, at |-> now, raised |-> r.raised,
                    escaped |-> r.escaped]
          /\ ob' = [ob EXCEPT
                      !.pc = IF r.escaped THEN "escaped" ELSE "loop",
                      !.cards = Tail(@),
                      !.open = IF Head(ob.cards).connect = "ok" /\ ~r.disconnected
                               THEN @ + 1 ELSE @]
    /\ UNCHANGED <<settings, now, w, fl, pw, call, mon>>

\* the loop is over and update returns
OReturn ==
    /\ ev.kind = "none" /\ ob.pc = "loop" /\ ob.cards = <<>>
    /\ ob' = OIdle
    /\ UNCHANGED <<h, settings, now, ev, w, fl, pw, call, mon>>

\* the exception has left update: the cards not yet taken are dropped
OEscaped ==
    /\ ev.kind = "none" /\ ob.pc = "escaped"
    /\ ob' = OIdle
    /\ UNCHANGED <<h, settings, now, ev, w, fl, pw, call, mon>>

NextObserve ==
    \/ OSetReadMode
    \/ OSetWriteMode
    \/ OSetUpdateMode
    \/ OInsert
    \/ OCard
    \/ Return
    \/ OReturn
    \/ OEscaped

SpecObserve == InitObserve /\ [][NextObserve]_vars

(***************************************************************************)
(* Properties of NFCObserver.update (SpecObserve).                         *)
(***************************************************************************)
\* C16: no exception raised while a card is processed leaves update: it
\* ends as the log event "Tag communication error", and the cards that
\* follow in the same insertion event are still dispatched
C16_NothingEscapes ==
    /\ ob.pc # "escaped"
    /\ (ev.kind # "none" /\ ev.raised
          => /\ ~ev.escaped
             /\ ev.out # <<>>
             /\ ev.out[Len(ev.out)] = Log("Tag communication error", "error"))

\* a raising log_callback and a card that logs: the exception leaves update
\* and the second card of the insertion event is never taken
C16_EscapedWithCardLeft ==
    /\ ob.pc = "escaped" /\ ob.cards # <<>>
    /\ ev.kind = "read" /\ ev.tag0 = EmptyTag /\ ev.c.f = NoFault
    /\ ev.out = <<Log("Invalid URL", "warning"),
                  Log("Tag communication error", "error")>>

\* C17: the connection opened for a card is disconnected before the next
\* card is processed, on every path through the handlers: update never
\* holds a connection it has left open
C17_DisconnectedBeforeNext == ob.open = 0

\* two cards of one insertion event, both left connected
C17_TwoLeftOpen == ob.open = 2

(***************************************************************************)
(* SpecPage: one call of _pcsc_write_page, transmit by transmit, under     *)
(* every sequence of outcomes of transmit and of the reconnect.            *)
(***************************************************************************)
\* the default of the retries parameter
Retries == 4

\* what one transmit of the UPDATE BINARY command does: status 90 00, status
\* 63 xx, another status, an exception whose text names T=1 or the
\* transport, another exception
Outcomes == {"9000", "63", "status", "transport", "exc"}

\* the protocol update connected the card with
Protocols == {"T1", "default"}

\* pages the callers write: the lock bytes, the CC, the first data page
PPages == {LockPage, CCPage, FirstDataPage}

InitPage == InitWith(DefaultSettings)

PCall ==
    /\ pw.pc = "idle"
    /\ \E p \in Protocols, page \in PPages :
          pw' = [PIdle EXCEPT !.pc = "transmit", !.protocol = p, !.page = page]
    /\ UNCHANGED <<h, settings, now, ev, w, fl, ob, call, mon>>

\* the transmit of the while loop
PTransmitOneMoreRetry(o) ==
    /\ pw.pc = "transmit"
    /\ pw' = [pw EXCEPT
                !.trace = Append(@, o),
                !.ret = (o = "9000"),
                !.attempts = IF o = "63" /\ @ <= Retries THEN @ + 1 ELSE @,
                !.pc = IF o = "63" /\ pw.attempts <= Retries THEN "transmit"
                       ELSE IF o = "transport" /\ ~pw.did_reconnect
                       THEN "reconnect"
                       ELSE "done"]
    /\ UNCHANGED <<h, settings, now, ev, w, fl, ob, call, mon>>
PTransmit(o) ==
    /\ pw.pc = "transmit"
    /\ pw' = [pw EXCEPT
                !.trace = Append(@, o),
                !.ret = (o = "9000"),
                !.attempts = IF o = "63" /\ @ < Retries THEN @ + 1 ELSE @,
                !.pc = IF o = "63" /\ pw.attempts < Retries THEN "transmit"
                       ELSE IF o = "transport" /\ ~pw.did_reconnect
                       THEN "reconnect"
                       ELSE "done"]
    /\ UNCHANGED <<h, settings, now, ev, w, fl, ob, call, mon>>

\* disconnect (its exception swallowed) and connect(T1_protocol), which may
\* raise
PReconnect(ok) ==
    /\ pw.pc = "reconnect"
    /\ pw' = [pw EXCEPT
                !.reconnects = @ + 1,
                !.did_reconnect = ok,
                !.protocol = IF ok THEN "T1" ELSE "none",
                !.pc = IF ok THEN "retransmit" ELSE "done"]
    /\ UNCHANGED <<h, settings, now, ev, w, fl, ob, call, mon>>

\* the transmit that follows the reconnect
PRetransmitLoops(o) ==
    /\ pw.pc = "retransmit"
    /\ pw' = [pw EXCEPT !.trace = Append(@, o),
                        !.ret = (o = "9000"),
                        !.pc = IF o = "63" THEN "retransmit" ELSE "done"]
    /\ UNCHANGED <<h, settings, now, ev, w, fl, ob, call, mon>>
PRetransmit(o) ==
    /\ pw.pc = "retransmit"
    /\ pw' = [pw EXCEPT !.trace = Append(@, o),
                        !.ret = (o = "9000"),
                        !.pc = "done"]
    /\ UNCHANGED <<h, settings, now, ev, w, fl, ob, call, mon>>

\* the call returns pw.ret
PReturn ==
    /\ pw.pc = "done"
    /\ pw' = PIdle
    /\ UNCHANGED <<h, settings, now, ev, w, fl, ob, call, mon>>

PTransmits == \E o \in Outcomes : PTransmit(o)
PReconnects == \E ok \in BOOLEAN : PReconnect(ok)
PRetransmits == \E o \in Outcomes : PRetransmit(o)

NextPage ==
    \/ PCall
    \/ PTransmits
    \/ PReconnects
    \/ PRetransmits
    \/ PReturn

SpecPage == InitPage /\ [][NextPage]_vars

(***************************************************************************)
(* Properties of _pcsc_write_page (SpecPage).                              *)
(***************************************************************************)
PDone == pw.pc = "done"

PLast == pw.trace[Len(pw.trace)]

\* the transmits that answered 0x63
Naks == {i \in 1..Len(pw.trace) : pw.trace[i] = "63"}

\* every transmit so far answered 0x63
AllNaks == Naks = 1..Len(pw.trace)

\* C18: on status 0x63 the same write is retried, up to 4 times; the call
\* returns True as soon as an attempt answers 90 00, and False when the
\* retries are exhausted or an attempt answers any other status
C18_RetryOnNak ==
    /\ (AllNaks /\ Len(pw.trace) <= Retries => pw.pc \in {"idle", "transmit"})
    /\ (AllNaks /\ Len(pw.trace) = Retries + 1 => PDone /\ ~pw.ret)
    /\ Len(pw.trace) - pw.reconnects <= Retries + 1
    /\ (\E i \in 1..Len(pw.trace) : pw.trace[i] = "9000")
          => PDone /\ pw.ret /\ PLast = "9000"
    /\ (PDone /\ pw.ret => PLast = "9000")
    /\ (pw.trace # <<>> /\ PLast = "status" => PDone /\ ~pw.ret)

C18_Witness ==
    /\ PDone /\ pw.ret
    /\ pw.trace = <<"63", "63", "63", "63", "9000">>

C18_ExhaustedWitness ==
    /\ PDone /\ ~pw.ret
    /\ pw.trace = <<"63", "63", "63", "63", "63">>

\* the transmits made before the reconnect, if any
BeforeReconnect ==
    IF pw.reconnects = 0 \/ pw.pc = "reconnect" \/ ~pw.did_reconnect
    THEN Len(pw.trace)
    ELSE Len(pw.trace) - (IF pw.pc = "retransmit" THEN 0 ELSE 1)

\* C19: a transport fault of transmit is followed by at most one
\* disconnect+reconnect per call and by exactly one retry of the write after
\* a reconnect that succeeded; a failed reconnect, and any outcome of the
\* retried write but 90 00 (0x63 included), ends the call with False; an
\* exception without the transport signature ends it with False without a
\* reconnect; the call ends after at most retries + 2 transmits
C19_OneReconnect ==
    /\ pw.reconnects <= 1
    /\ Len(pw.trace) <= Retries + 2
    /\ (pw.reconnects = 1 =>
          /\ pw.trace[BeforeReconnect] = "transport"
          /\ \A i \in 1..(BeforeReconnect - 1) : pw.trace[i] = "63"
          /\ IF pw.did_reconnect
             THEN IF pw.pc = "retransmit" THEN Len(pw.trace) = BeforeReconnect
                  ELSE /\ PDone
                       /\ Len(pw.trace) = BeforeReconnect + 1
                       /\ pw.ret = (PLast = "9000")
             ELSE PDone /\ ~pw.ret /\ Len(pw.trace) = BeforeReconnect)
    /\ (pw.trace # <<>> /\ PLast = "transport" /\ pw.reconnects = 0
          => pw.pc = "reconnect")
    /\ (pw.trace # <<>> /\ PLast = "exc"
          => PDone /\ ~pw.ret
             /\ (pw.reconnects = 1 => pw.did_reconnect))
    /\ (\E i \in 1..Len(pw.trace) : pw.trace[i] = "exc")
          /\ pw.reconnects = 0 => PDone /\ ~pw.ret
    /\ (pw.pc \in {"transmit", "reconnect", "retransmit"}
          => ENABLED NextPage)

C19_Witness ==
    /\ PDone /\ ~pw.ret
    /\ pw.reconnects = 1 /\ pw.did_reconnect
    /\ pw.trace = <<"63", "transport", "63">>

(***************************************************************************)
(* Properties of a failing page write (SpecW).                             *)
(***************************************************************************)
\* the page writes of the call that failed
WFailedWrites == {i \in Writes(WOps) : WHit(i)}

\* nothing is written after the i-th operation and the call returns False
WAbortedAt(i) ==
    /\ \A j \in Writes(WOps) : j <= i
    /\ ~w.wm.ret

\* C20: a failure of any page write made inside write_ndef_message aborts
\* the write (no later page write, no final header rewrite) and makes the
\* call return False
C20_PageFailureAborts ==
    WDone => \A i \in WFailedWrites : WAbortedAt(i)

\* the same for the writes of the data area alone, which the code does honour
C20_DataPageFailureAborts ==
    WDone => \A i \in WFailedWrites : WOps[i][2] >= FirstDataPage => WAbortedAt(i)

\* the write of the CC fails on a tag without one, the data pages are written
\* all the same and the call returns True
C20_CCFailureIgnored ==
    /\ WDone /\ w.wm.ret
    /\ w.tag0 = RawTag /\ w.url = UrlA
    /\ WFailedWrites = {2} /\ WOps[2] = <<"w", CCPage>>
    /\ WTag.pages[CCPage] # CC_VALUE
    /\ Cardinality(HeaderWrites(WOps)) = 2

(***************************************************************************)
(* Properties of the counters (Spec).                                      *)
(***************************************************************************)
\* the card event wrote, write_ndef_message returned True and the immediate
\* read-back gave the URL that was to be written
ConfirmedWrite ==
    /\ WriteEvent \/ WriteNewEvent
    /\ WriteReportedSuccess(ev)
    /\ ReadBack(ev) = (IF ev.kind = "write" THEN ev.before.url_to_write
                       ELSE ev.before.pending_rewrite_url)

C21_MismatchWitness ==
    /\ WriteEvent /\ WriteReportedSuccess(ev) /\ ~ConfirmedWrite
    /\ ev.before.batch_total = MaxBatch
    /\ CountersUnchanged

(***************************************************************************)
(* Properties of the protection applied after a write (SpecWrite).         *)
(***************************************************************************)
\* the operations of the event that follow the final header write
AfterWrite(e) ==
    {i \in 1..Len(e.c.ops) : i > MaxOf(HeaderWrites(e.c.ops))}

\* lock_tag_permanently was called: it begins by reading the lock page
LockAttempts(e) == {i \in AfterWrite(e) : e.c.ops[i] = <<"r", LockPage>>}

\* set_password_protection was called: it begins by writing the PWD page
PasswordAttempts(e) == {i \in 1..Len(e.c.ops) : e.c.ops[i] = <<"w", PwdPage>>}

WriteConfirmed ==
    /\ WriteEvent
    /\ WriteReportedSuccess(ev)
    /\ ReadBack(ev) = ev.before.url_to_write

ProtectionAttempts ==
    Cardinality(LockAttempts(ev)) + Cardinality(PasswordAttempts(ev))

\* C22: lock_tags and use_password are never both set by set_write_mode, a
\* write-mode card event never calls both set_password_protection and
\* lock_tag_permanently, and a verified write for which a lock or a password
\* was requested is followed by exactly one protection attempt
C22_OneProtection ==
    /\ (h.mode = "write" => ~(h.lock_tags /\ h.use_password))
    /\ (WriteConfirmed =>
          /\ ~(LockAttempts(ev) # {} /\ PasswordAttempts(ev) # {})
          /\ (ev.before.lock_tags \/ ev.before.use_password
                => ProtectionAttempts = 1))

\* the same with the password protection asked for with a password
C22_OneProtectionGivenPassword ==
    /\ (h.mode = "write" => ~(h.lock_tags /\ h.use_password))
    /\ (WriteConfirmed =>
          /\ ~(LockAttempts(ev) # {} /\ PasswordAttempts(ev) # {})
          /\ (ev.before.lock_tags
                \/ (ev.before.use_password /\ ev.before.tag_password # NONE)
                => ProtectionAttempts = 1)
          /\ (~ev.before.lock_tags /\ ~ev.before.use_password
                => ProtectionAttempts = 0))

\* password protection requested without a password: the write is verified
\* and reported as plain "Written", and no protection was attempted
C22_Unprotected ==
    /\ WriteConfirmed
    /\ ev.before.use_password /\ ev.before.tag_password = NONE
    /\ ev.c.f = NoFault
    /\ ProtectionAttempts = 0
    /\ ~PhysLocked(ev.c.tag)
    /\ StartsWritten

\* the operations of set_password_protection, from its first write on
PasswordOps(e) ==
    {i \in 1..Len(e.c.ops) : \E j \in PasswordAttempts(e) : i >= j /\ i < j + 6}

\* lock_tag_permanently returned False: its read or its write met the fault
LockFailed(e) ==
    \E i \in LockAttempts(e) :
        \/ OpFailed(e.c, i)
        \/ i + 1 <= Len(e.c.ops) /\ e.c.ops[i + 1] = <<"w", LockPage>>
             /\ OpFailed(e.c, i + 1)

\* set_password_protection returned False: one of its writes failed or one
\* of its reads raised
PasswordFailed(e) ==
    \E i \in PasswordOps(e) :
        /\ OpFailed(e.c, i)
        /\ e.c.ops[i][1] = "w" \/ e.c.f.kind = "exc"

\* the success message of the event carries the qualifier q
Carries(q) ==
    \E i \in Emitted(ev, "write_callback") :
        /\ ev.out[i].a[1][1] = "Written"
        /\ \E k \in 2..Len(ev.out[i].a[1]) : ev.out[i].a[1][k] = q

CountedAsSuccess ==
    /\ h.cards_processed = ev.before.cards_processed + 1
    /\ h.batch_count = ev.before.batch_count
                         + (IF ev.before.batch_total > 1 THEN 1 ELSE 0)

\* C23: when lock_tag_permanently (or set_password_protection) fails after a
\* verified write, write_callback is still made with a message that starts
\* with "Written" and carries " (lock failed)" (resp. " (password protection
\* failed)"), the counters move as for a success, and the lock bytes of the
\* tag are not set
C23_ProtectionFailureReported ==
    WriteConfirmed =>
        /\ (LockFailed(ev) =>
              /\ Carries(" (lock failed)")
              /\ Cardinality(Emitted(ev, "write_callback")) = 1
              /\ CountedAsSuccess
              /\ ~PhysLocked(ev.c.tag))
        /\ (PasswordFailed(ev) =>
              /\ Carries(" (password protection failed)")
              /\ Cardinality(Emitted(ev, "write_callback")) = 1
              /\ CountedAsSuccess
              /\ ~PhysLocked(ev.c.tag))

C23_Witness ==
    /\ WriteConfirmed
    /\ LockFailed(ev)
    /\ ev.before.batch_total = MaxBatch
    /\ Carries(" (lock failed)")
    /\ ~PhysLocked(ev.c.tag)

\* the password protection failing at its last write: the message says so
\* and the lock bytes are untouched, while PWD, PACK and AUTH0 are on the tag
C23_PasswordWitness ==
    /\ WriteConfirmed
    /\ PasswordFailed(ev)
    /\ Carries(" (password protection failed)")
    /\ ev.c.tag.pages[CFG0Page][4] = 4
    /\ ~PhysLocked(ev.c.tag)

(***************************************************************************)
(* Properties of the capability container (SpecW).                         *)
(***************************************************************************)
\* page 3 of the tag starts with the NDEF magic E1 10
HasMagic(tag) == tag.pages[CCPage][1] = 225 /\ tag.pages[CCPage][2] = 16

CCWrites(ops) == {i \in 1..Len(ops) : ops[i] = <<"w", CCPage>>}

\* C24: on a tag whose page 3 starts with E1 10, write_ndef_message issues
\* no write to page 3, whatever the read of page 3 returned
C24_CCNeverOverwritten ==
    HasMagic(w.tag0) => CCWrites(WOps) = {}

\* the same provided the read of page 3 did not come back with a
\* non-success status
C24_CCKeptWhenRead ==
    HasMagic(w.tag0) /\ ~(WHit(1) /\ WFault.kind = "status")
        => CCWrites(WOps) = {}

\* the read of page 3 fails with a status word on a formatted tag, and the
\* CC value is written over the container
C24_Overwritten ==
    /\ WDone /\ w.wm.ret
    /\ HasMagic(w.tag0)
    /\ WOps[1] = <<"r", CCPage>> /\ WHit(1) /\ WFault.kind = "status"
    /\ WOps[2] = <<"w", CCPage>> /\ ~WHit(2)

DataWrites(ops) == {i \in Writes(ops) : ops[i][2] >= FirstDataPage}

\* the CC value was written to page 3, successfully, before operation i
CCWrittenBefore(i) == \E j \in CCWrites(WOps) : j < i /\ ~WHit(j)

\* C25: write_ndef_message writes a data page only if page 3 held the magic
\* or the CC value was successfully written to it earlier in the call; when
\* formatting fails no data page is written
C25_CCBeforeData ==
    \A i \in DataWrites(WOps) : HasMagic(w.tag0) \/ CCWrittenBefore(i)

\* on a tag that has the magic nothing is asked of the formatting step, and
\* a successful CC write leaves the container on the tag
C25_CCPresentWhenFormatted ==
    \A i \in DataWrites(WOps) :
        HasMagic(w.tag0) \/ CCWrittenBefore(i) => HasMagic(WTag)

\* the CC write fails on an unformatted tag and the whole message is written
\* all the same: the call returns True and the tag has no container
C25_DataWithoutCC ==
    /\ WDone /\ w.wm.ret
    /\ ~HasMagic(w.tag0) /\ ~HasMagic(WTag)
    /\ CCWrites(WOps) = {2} /\ WHit(2)
    /\ DataWrites(WOps) # {}
    /\ Decoded(WTag) = w.url

\* the read of page 3 raises on an unformatted tag: no CC write is made and
\* the data pages are written
C25_DataWithoutCCWrite ==
    /\ WDone /\ w.wm.ret
    /\ ~HasMagic(w.tag0)
    /\ CCWrites(WOps) = {}
    /\ DataWrites(WOps) # {}

(***************************************************************************)
(* SpecRewrite: Settings.rewrite_url called on its own, under each kind of *)
(* rewrite rule and with target bases that end in no, one or several       *)
(* slashes.                                                                *)
(***************************************************************************)
\* the most slashes a configured target base ends with
MaxSlashes == 2

\* https://your-domain.com/item
TargetStem == RStrip(DefaultTarget, Slash)

RewriteTargets ==
    {NONE} \cup {TargetStem \o Rep(Slash, k) : k \in 0..MaxSlashes}
           \cup {Rep(Slash, k) : k \in 1..MaxSlashes}

RewriteSettings ==
    [source_pattern : {"default", "nogroup", "invalid", "empty"},
     target_base_url : RewriteTargets, verify_after_write : {TRUE}]

\* https://10.0.0.9//item/xyz
UrlTwoSlashes == HTTPS \o TenNet \o <<57, 47, 47>> \o ITEM \o <<120, 121, 122>>
\* https://example.com/item/xyz
UrlExample ==
    HTTPS \o <<101, 120, 97, 109, 112, 108, 101, 46, 99, 111, 109, 47>>
          \o ITEM \o <<120, 121, 122>>
\* http://10.0.0.5:80/item/x/y
UrlPort == HTTP \o TenNet \o <<53, 58, 56, 48, 47>> \o ITEM \o <<120, 47, 121>>
\* http://10.0.0.5/item/  (nothing for the group to capture)
UrlNoItem == HTTP \o TenNet \o <<53, 47>> \o ITEM

RewriteUrls == {UrlOld, UrlTwoSlashes, UrlExample, UrlPort, UrlNoItem, UrlA,
                TextTel, NONE}

InitRewrite ==
    /\ h = HandlerInit
    /\ settings \in RewriteSettings
    /\ now = StartTime
    /\ ev = EvNone
    /\ w = WIdle
    /\ fl = FIdle
    /\ pw = PIdle
    /\ ob = OIdle
    /\ call = CIdle
    /\ mon = MonInit

\* rewrite_url(url) is called and returns or raises
RewriteCall(url) ==
    /\ call.fn = "none"
    /\ call' = [fn |-> "rewrite_url", url |-> url, ret |-> RewriteUrl(settings, url)]
    /\ UNCHANGED <<h, settings, now, ev, w, fl, pw, ob, mon>>

CallReturn ==
    /\ call.fn # "none"
    /\ call' = CIdle
    /\ UNCHANGED <<h, settings, now, ev, w, fl, pw, ob, mon>>

RewriteCalls == \E url \in RewriteUrls : RewriteCall(url)

NextRewrite ==
    \/ RewriteCalls
    \/ CallReturn

SpecRewrite == InitRewrite /\ [][NextRewrite]_vars

(***************************************************************************)
(* Properties of rewrite_url (SpecRewrite).                                *)
(***************************************************************************)
Rewriting == call.fn = "rewrite_url"

\* the rule is a pattern with one capture group and a target base
RuleWithGroup ==
    settings.source_pattern = "default" /\ settings.target_base_url # NONE

\* the text DEFAULT_PATTERN captures from url, written out from the
\* expression: scheme, 10.0.0.<digits>, optional :<digits>, one or more
\* slashes, item/, then at least one character
Captured(url) ==
    {g \in {SubSeq(url, k, Len(url)) : k \in 2..Len(url)} :
        \E scheme \in {HTTP, HTTPS}, d \in 1..2, p \in 0..3, sl \in 1..2 :
            LET host == Len(scheme) + Len(TenNet)
                rest == Len(url) - Len(g)
            IN /\ StartsWith(url, scheme \o TenNet)
               /\ rest = host + d + p + sl + Len(ITEM)
               /\ \A k \in (host + 1)..(host + d) : url[k] \in 48..57
               /\ p > 0 => /\ p >= 2
                           /\ url[host + d + 1] = 58
                           /\ \A k \in (host + d + 2)..(host + d + p) :
                                  url[k] \in 48..57
               /\ \A k \in (host + d + p + 1)..(host + d + p + sl) : url[k] = Slash
               /\ SubSeq(url, rest - Len(ITEM) + 1, rest) = ITEM}

\* s ends with exactly one slash
OneSlash(s) ==
    /\ Len(s) >= 1 /\ s[Len(s)] = Slash
    /\ Len(s) >= 2 => s[Len(s) - 1] # Slash

\* C26: with a rule that has a capture group and a target base, rewrite_url
\* returns (url, False) when the pattern does not match url, and
\* (base + group 1, True) when it does, base being target_base_url with its
\* trailing slashes replaced by exactly one
C26_RewriteResult ==
    Rewriting /\ RuleWithGroup =>
        /\ ~call.ret.raised
        /\ (Captured(call.url) = {} =>
              call.ret.url = call.url /\ ~call.ret.rewritten)
        /\ \A g \in Captured(call.url) :
              /\ call.ret.rewritten
              /\ \E base \in {SubSeq(call.ret.url, 1, Len(call.ret.url) - Len(g))} :
                    /\ call.ret.url = base \o g
                    /\ OneSlash(base)
                    /\ RStrip(base, Slash) = RStrip(settings.target_base_url, Slash)

\* the example: the default rule on https://10.0.0.9//item/xyz, the target
\* base ending with several slashes
C26_Witness ==
    /\ Rewriting /\ RuleWithGroup
    /\ call.url = UrlTwoSlashes
    /\ settings.target_base_url = DefaultTarget \o <<Slash>>
    /\ call.ret.rewritten
    /\ call.ret.url = DefaultTarget \o <<120, 121, 122>>

C26_UnchangedWitness ==
    /\ Rewriting /\ RuleWithGroup
    /\ call.url = UrlExample
    /\ call.ret.url = UrlExample /\ ~call.ret.rewritten

\* without a target base the rule is off: the URL comes back unchanged
C26_NoTarget ==
    /\ Rewriting
    /\ settings.source_pattern = "default" /\ settings.target_base_url = NONE
    /\ Captured(call.url) # {}
    /\ call.ret.url = call.url /\ ~call.ret.rewritten

\* C27: whatever the configured source_pattern (one that does not compile,
\* an empty one, one without a capture group) and whatever the url,
\* rewrite_url returns (url, False) or a rewritten pair and never raises
C27_NeverRaises ==
    Rewriting =>
        /\ ~call.ret.raised
        /\ call.ret.rewritten \/ call.ret.url = call.url

\* a pattern that does not compile and an empty pattern behave as no match
C27_InvalidOrEmptyIsNoMatch ==
    Rewriting /\ settings.source_pattern \in {"invalid", "empty"} =>
        /\ ~call.ret.raised
        /\ ~call.ret.rewritten /\ call.ret.url = call.url

\* a pattern without a capture group matches the URL, and match.group(1)
\* raises out of rewrite_url
C27_Raised ==
    /\ Rewriting
    /\ settings.source_pattern = "nogroup"
    /\ settings.target_base_url = DefaultTarget
    /\ call.url = UrlOld
    /\ call.ret.raised

(***************************************************************************)
(* SpecDump: read_ndef_message called on its own, on tags whose data area  *)
(* holds well-formed and malformed TLV bytes, the page reads meeting       *)
(* faults that cut the dump short.                                         *)
(***************************************************************************)
\* the URI record of https://a.b
DumpRecord == MessageEncoder(UrlA)

\* what precedes the TLV: nothing, padding, an empty NDEF TLV, a lock
\* control TLV, a stray 03 03
DumpPrefixes == {<<>>, <<0, 0>>, <<TlvNdef, 0>>, <<1, 3, 160, 12, 52>>,
                 <<TlvNdef, TlvNdef>>}

DumpTypes == {0, 1, TlvNdef}

DumpLengths == {0, Len(DumpRecord), MaxLengthByte}

DumpMessages ==
    {pre \o <<t, l>> \o DumpRecord \o <<TlvTerminator>> :
        pre \in DumpPrefixes, t \in DumpTypes, l \in DumpLengths}
    \cup {<<>>, <<TlvTerminator>>, <<TlvNdef, 0, TlvTerminator>>,
          <<TlvTerminator, 0, TlvNdef, 5>>, <<0, 0, 0, TlvNdef>>}

DumpTags == {TagWith(m, FALSE, FALSE) : m \in DumpMessages}

InitDump ==
    /\ h = HandlerInit
    /\ settings = SettingsInit
    /\ now = StartTime
    /\ ev = EvNone
    /\ w = WIdle
    /\ fl = FIdle
    /\ pw = PIdle
    /\ ob = OIdle
    /\ call = CIdle
    /\ mon = MonInit

\* read_ndef_message(connection) is called: dump is ndef_data as the page
\* loop left it, exc tells that a transmit raised, ret is what the call
\* returned
ReadCall(tag, f) ==
    /\ call.fn = "none"
    /\ \E r \in {ReadPages(Ctx(tag, f), FirstDataPage, <<>>)} :
          call' = [fn |-> "read_ndef_message", f |-> f,
                   dump |-> r.data, exc |-> r.exc,
                   ret |-> ReadNdefMessage(Ctx(tag, f)).url]
    /\ UNCHANGED <<h, settings, now, ev, w, fl, pw, ob, mon>>

ReadCalls == \E tag \in DumpTags, f \in EFaults : ReadCall(tag, f)

NextDump ==
    \/ ReadCalls
    \/ CallReturn

SpecDump == InitDump /\ [][NextDump]_vars

(***************************************************************************)
(* Properties of the TLV scan (SpecDump).                                  *)
(***************************************************************************)
Reading == call.fn = "read_ndef_message"

\* the length that follows position i runs past the end of the bytes read
RunsPast(d, i) == i + 1 + d[i + 1] > Len(d)

\* every 0x03 the scan can locate in d is followed by a length of 0 or by a
\* length that runs past the end; so it is for a d shorter than a TLV
\* header and for a d without 0x03
NoUsableTlv(d) ==
    \A i \in 1..(Len(d) - 2) : d[i] = TlvNdef => d[i + 1] = 0 \/ RunsPast(d, i)

\* the URI came out of the window whose length is the byte after a 0x03
FromTlv(d, uri) ==
    \E i \in 1..(Len(d) - 2) :
        /\ d[i] = TlvNdef /\ d[i + 1] > 0 /\ ~RunsPast(d, i)
        /\ uri = MessageDecoder(SubSeq(d, i + 2, i + 1 + d[i + 1]))

\* C28: read_ndef_message returns None, and raises nothing, for every dump
\* that is shorter than a TLV header, that has no 0x03, or whose 0x03 bytes
\* are each followed by a length of 0 or by a length that runs past the end
\* of the bytes read; what it returns otherwise was decoded with a length
\* byte taken directly after a 0x03
C28_MalformedDumpGivesNone ==
    Reading =>
        /\ (NoUsableTlv(call.dump) => call.ret = NONE)
        /\ (call.exc => call.ret = NONE)
        /\ (call.ret # NONE => FromTlv(call.dump, call.ret))

\* the second page read fails and cuts the dump inside the record: the
\* length runs past the end of the bytes read
C28_Witness ==
    /\ Reading
    /\ call.f = [at |-> 2, kind |-> "status", sticky |-> FALSE]
    /\ Len(call.dump) = 4
    /\ call.dump[1] = TlvNdef /\ call.dump[2] = Len(DumpRecord)
    /\ RunsPast(call.dump, 1)
    /\ call.ret = NONE

C28_EmptyDumpWitness ==
    Reading /\ call.dump = <<>> /\ ~call.exc /\ call.ret = NONE

C28_ZeroLengthWitness ==
    /\ Reading /\ call.f = NoFault
    /\ SubSeq(call.dump, 1, 3) = <<TlvNdef, 0, 209>>
    /\ NoUsableTlv(call.dump)
    /\ call.ret = NONE

\* the scan goes on past a 0x03 with length 0 and past the 0x03 inside a
\* lock control TLV to a later TLV
C28_LaterTlvWitness ==
    /\ Reading /\ call.f = NoFault
    /\ SubSeq(call.dump, 1, 2) \in {<<TlvNdef, 0>>, <<1, TlvNdef>>}
    /\ call.ret = UrlA

(***************************************************************************)
(* Properties of a failed read (SpecRead).                                 *)
(***************************************************************************)
\* what read_ndef_message returned to handle_read_mode
ReadReturned == ReadNdefMessage(Ctx(ev.tag0, ev.c.f)).url

\* a read-mode card event that got past the debounce test and decoded nothing
FailedRead == ReadEvent /\ ~Debounced /\ ReadReturned = NONE

\* C29: a read-mode card event that fails to decode a URL emits the warning
\* log "Invalid URL", calls no read_callback and leaves last_read_time (and
\* every other field) as it was, so that the debounce test of a card
\* presented from then on is false; last_read_time changes only in an event
\* whose decode succeeded
C29_FailedReadKeepsWindow ==
    /\ (FailedRead =>
          /\ ev.out = <<Log("Invalid URL", "warning")>>
          /\ h = ev.before
          /\ now - h.last_read_time >= ReadCooldown)
    /\ (ReadEvent /\ h.last_read_time # ev.before.last_read_time =>
          /\ ReadReturned # NONE
          /\ ev.out = <<ReadCb(ReadReturned)>>
          /\ h.last_read_time = ev.at)

\* a failed read that follows a successful one: the window of the
\* successful read has run out and is not restarted
C29_Witness ==
    /\ FailedRead
    /\ ev.before.last_read_time >= StartTime
    /\ ev.c.f = NoFault
    /\ ev.c.ops # <<>>
    /\ h.last_read_time = ev.before.last_read_time

\* the read fails on a tag that holds a URL, because a page read fails
C29_FaultWitness ==
    /\ FailedRead
    /\ HoldsValidUrl(ev.tag0)
    /\ ev.c.f.at = 1
    /\ h.last_read_time = ev.before.last_read_time

(***************************************************************************)
(* Properties of the header of a write in progress (SpecW).                *)
(***************************************************************************)
\* the placeholder write to page 4 was made and succeeded
WPlaceholderLanded == \E i \in HeaderWrites(WOps) : ~WHit(i)

\* the final rewrite of page 4 was made and succeeded
WHeaderLanded ==
    /\ Cardinality(HeaderWrites(WOps)) = 2
    /\ ~WHit(MaxOf(HeaderWrites(WOps)))

\* the page of the data area that holds the j-th byte of the message
WPageOfByte(j) == FirstDataPage + ((j - 1) \div 4)

\* the pages of the data area that this call has written with the bytes of
\* the message: page 4 by the final rewrite, the others by the loop
WLandedPages ==
    {WOps[i][2] : i \in {k \in Writes(WOps) : WOps[k][2] > FirstDataPage /\ ~WHit(k)}}
    \cup (IF WHeaderLanded THEN {FirstDataPage} ELSE {})

BytesOn(pages, len) == {j \in 3..(2 + len) : WPageOfByte(j) \in pages}

\* the bytes of the NDEF message (what follows the two header bytes) that
\* this call has written to the tag
WLanded == BytesOn(WLandedPages, w.wm.msg[2])

\* the length byte of the TLV on page 4 of the tag
WLengthOnTag == WTag.pages[FirstDataPage][2]

\* C30: from the placeholder write on, in every intermediate state of
\* write_ndef_message and in its final state, the length byte on page 4 does
\* not exceed the number of bytes of the new NDEF message that have been
\* written to the tag; page 4 holds 03 00 00 00 until the final rewrite
C30_LengthWithinLanded ==
    w.wm.pc # "idle" /\ WPlaceholderLanded =>
        /\ WLengthOnTag <= Cardinality(WLanded)
        /\ (w.wm.pc \in {"pages", "final"} =>
              WTag.pages[FirstDataPage] = PLACEHOLDER)

\* the same for the messages that fit in pages 4..39
C30_LengthWithinLandedWhenFits ==
    w.wm.pc # "idle" /\ WPlaceholderLanded /\ FitsDataArea(w.wm.msg) =>
        /\ WLengthOnTag <= Cardinality(WLanded)
        /\ (w.wm.pc \in {"pages", "final"} =>
              WTag.pages[FirstDataPage] = PLACEHOLDER)
        /\ (WLengthOnTag # 0 => w.wm.pc = "done" /\ WLengthOnTag = w.wm.msg[2])

\* a message one byte longer than the data area: the loop stops at page 39,
\* the true length is written, and the tag claims more than was written
C30_ClaimsMoreThanLanded ==
    /\ WDone /\ w.wm.ret
    /\ WFault = NoFault
    /\ ~FitsDataArea(w.wm.msg)
    /\ WLengthOnTag = w.wm.msg[2]
    /\ Cardinality(WLanded) < WLengthOnTag

\* a write in progress over a tag that held a longer message: page 4 is the
\* placeholder while the pages land
C30_InProgress ==
    /\ w.wm.pc = "pages"
    /\ Decoded(w.tag0) = LongUrl(136)
    /\ w.url = UrlA
    /\ WTag.pages[FirstDataPage] = PLACEHOLDER
    /\ Cardinality(WLanded) > 0

(***************************************************************************)
(* SpecWriteFlight: write mode with the card event taken statement by      *)
(* statement on the card-event thread, while the collaborator's thread may *)
(* call set_write_mode, set_read_mode or set_update_mode.  The event reads *)
(* the handler's fields each time the code names them.  The frame of the   *)
(* event is kept in fl: wrote is the URL that was encoded, rb what the     *)
(* immediate read-back returned, cmp the URL it was compared with, sfx the *)
(* qualifiers of the success message, changed whether a configuration call *)
(* was made during the event.                                              *)
(***************************************************************************)
GIdle ==
    [pc |-> "idle", before |-> HandlerInit, tag0 |-> BlankTag,
     c |-> Ctx(BlankTag, NoFault), out |-> <<>>, wrote |-> NONE, rb |-> NONE,
     cmp |-> NONE, compared |-> FALSE, sfx |-> <<>>, changed |-> FALSE]

GTags == {EmptyTag,
          TagWith(CreateNdefRecord(UrlOld), FALSE, FALSE),
          TagWith(EmptyMsg, FALSE, TRUE)}

GUrls == {UrlA, UrlB}

\* lock_after_write, allow_overwrite
GOptions == {<<TRUE, FALSE>>, <<FALSE, TRUE>>}

\* the operations of the event a fault may hit: the lock check, the content
\* check, the page writes, the read-back
GFaults ==
    {NoFault} \cup [at : {1, 2, 5, 8}, kind : {"status"}, sticky : {FALSE}]

InitWriteFlight ==
    /\ h = HandlerInit
    /\ settings = SettingsInit
    /\ now = StartTime
    /\ ev = EvNone
    /\ w = WIdle
    /\ fl = GIdle
    /\ pw = PIdle
    /\ ob = OIdle
    /\ call = CIdle
    /\ mon = MonInit

\* a configuration call made on the collaborator's thread at any time
GConfigured(hh) ==
    /\ h' = hh
    /\ fl' = [fl EXCEPT !.changed = @ \/ fl.pc # "idle"]
    /\ UNCHANGED <<settings, now, ev, w, pw, ob, call, mon>>

\* set_write_mode
GSetWriteMode ==
    \E url \in GUrls, o \in GOptions :
        GConfigured([h EXCEPT !.mode = "write", !.url_to_write = url,
                              !.lock_tags = o[1],
                              !.use_password = FALSE,
                              !.tag_password = NONE,
                              !.allow_overwrite = o[2]])

\* set_read_mode
GSetReadMode ==
    GConfigured([h EXCEPT !.mode = "read", !.url_to_write = NONE,
                          !.lock_tags = FALSE])

\* set_update_mode
GSetUpdateMode ==
    GConfigured([h EXCEPT !.mode = "update", !.url_to_write = NONE,
                          !.lock_tags = TRUE, !.allow_overwrite = FALSE,
                          !.update_step = "scan_old",
                          !.pending_rewrite_url = NONE,
                          !.pending_original_url = NONE])

\* a card is presented and NFCObserver.update finds mode = write
GBegin ==
    /\ fl.pc = "idle"
    /\ h.mode = "write"
    /\ h.cards_processed < MaxCount
    /\ \E tag \in GTags, f \in GFaults :
          fl' = [GIdle EXCEPT !.pc = "url", !.before = h, !.tag0 = tag,
                              !.c = Ctx(tag, f)]
    /\ UNCHANGED <<h, settings, now, ev, w, pw, ob, call, mon>>

\* if not handler.url_to_write: return
GUrl ==
    /\ fl.pc = "url"
    /\ fl' = [fl EXCEPT !.pc = IF h.url_to_write = NONE THEN "done" ELSE "locked"]
    /\ UNCHANGED <<h, settings, now, ev, w, pw, ob, call, mon>>

\* if handler.is_tag_locked(connection): the locked branch, taken whole
GLocked ==
    /\ fl.pc = "locked"
    /\ \E lk \in {IsTagLocked(fl.c)} :
          IF lk.res
          THEN \E r \in {WriteModeLocked(h, lk.c)} :
                  fl' = [fl EXCEPT !.pc = "done", !.c = r.c, !.out = r.out]
          ELSE fl' = [fl EXCEPT !.pc = "content", !.c = lk.c]
    /\ UNCHANGED <<h, settings, now, ev, w, pw, ob, call, mon>>

\* has_existing, existing_url = handler._has_ndef_content(connection);
\* if has_existing and not handler.allow_overwrite
GContent ==
    /\ fl.pc = "content"
    /\ \E e \in {HasNdefContent(fl.c)} :
          fl' = IF e.has /\ ~h.allow_overwrite
                THEN [fl EXCEPT !.pc = "done", !.c = e.c,
                        !.out = <<WriteCb(<<"Write blocked: tag has existing data">>)>>]
                ELSE [fl EXCEPT !.pc = "write", !.c = e.c]
    /\ UNCHANGED <<h, settings, now, ev, w, pw, ob, call, mon>>

\* what follows create_ndef_record: the record is written, or the exception
\* is caught
GWritten(msg, url) ==
    IF msg = NONE
    THEN [fl EXCEPT !.pc = "done", !.wrote = url,
                    !.out = <<Log("Write error", "error")>>]
    ELSE LET wr == WriteNdefMessage(fl.c, msg)
         IN IF wr.ok
            THEN [fl EXCEPT !.pc = "readback", !.c = wr.c, !.wrote = url]
            ELSE [fl EXCEPT !.pc = "done", !.c = wr.c, !.wrote = url,
                            !.out = <<Log("Write failed", "error")>>]

\* create_ndef_record(handler.url_to_write) and write_ndef_message;
\* ndef.UriRecord(None) either raises or stands for the empty URI
GWrite ==
    /\ fl.pc = "write"
    /\ \E raises \in (IF h.url_to_write = NONE THEN BOOLEAN ELSE {FALSE}) :
          fl' = GWritten(IF raises THEN NONE
                         ELSE CreateNdefRecord(h.url_to_write),
                         h.url_to_write)
    /\ UNCHANGED <<h, settings, now, ev, w, pw, ob, call, mon>>

\* quick_verify_url = read_ndef_message(connection);
\* if quick_verify_url != handler.url_to_write
GReadBack ==
    /\ fl.pc = "readback"
    /\ \E rb \in {ReadNdefMessage(fl.c)} :
          fl' = IF rb.url # h.url_to_write
                THEN [fl EXCEPT !.pc = "done", !.c = rb.c, !.rb = rb.url,
                        !.cmp = h.url_to_write, !.compared = TRUE,
                        !.out = <<WriteCb(<<"Locked tag - writing prevented">>)>>]
                ELSE [fl EXCEPT !.pc = "protect", !.c = rb.c, !.rb = rb.url,
                        !.cmp = h.url_to_write, !.compared = TRUE]
    /\ UNCHANGED <<h, settings, now, ev, w, pw, ob, call, mon>>

\* the protection, with the flags as they are now
GProtect ==
    /\ fl.pc = "protect"
    /\ \E p \in {Protect(h, fl.c)} :
          fl' = [fl EXCEPT !.pc = "verify", !.c = p.c, !.sfx = p.sfx]
    /\ UNCHANGED <<h, settings, now, ev, w, pw, ob, call, mon>>

\* the delayed verification, compared with url_to_write as it is now
GVerify ==
    /\ fl.pc = "verify"
    /\ \E q \in {DelayedVerify(h, settings, [c |-> fl.c, sfx |-> fl.sfx])} :
          fl' = [fl EXCEPT !.pc = "report", !.c = q.c, !.sfx = q.sfx]
    /\ UNCHANGED <<h, settings, now, ev, w, pw, ob, call, mon>>

\* write_callback(success_msg) and the counters
GReport ==
    /\ fl.pc = "report"
    /\ \E r \in {Report(h, [c |-> fl.c, sfx |-> fl.sfx])} :
          /\ h' = r.h
          /\ fl' = [fl EXCEPT !.pc = "done", !.out = r.out]
    /\ UNCHANGED <<settings, now, ev, w, pw, ob, call, mon>>

\* update returns
GReturn ==
    /\ fl.pc = "done"
    /\ fl' = GIdle
    /\ UNCHANGED <<h, settings, now, ev, w, pw, ob, call, mon>>

NextWriteFlight ==
    \/ GSetWriteMode
    \/ GSetReadMode
    \/ GSetUpdateMode
    \/ GBegin
    \/ GUrl
    \/ GLocked
    \/ GContent
    \/ GWrite
    \/ GReadBack
    \/ GProtect
    \/ GVerify
    \/ GReport
    \/ GReturn

SpecWriteFlight == InitWriteFlight /\ [][NextWriteFlight]_vars

(***************************************************************************)
(* Properties of the write-mode event in flight (SpecWriteFlight).         *)
(***************************************************************************)
GDone == fl.pc = "done"

\* taken without a configuration call, the statements of the event add up
\* to the event taken whole
GFlightAgrees ==
    GDone /\ ~fl.changed =>
        \E r \in {HandleWriteMode(fl.before, settings, Ctx(fl.tag0, fl.c.f))} :
            r.h = h /\ r.c = fl.c /\ r.out = fl.out

GReportedLocked == fl.out = <<WriteCb(<<"Locked tag - writing prevented">>)>>

\* C31: a write-mode card event during which set_write_mode, set_read_mode
\* or set_update_mode is called: the URL the read-back is compared with is
\* the URL that was encoded and written, and a tag that reads back as the
\* URL written is not reported as "Locked tag - writing prevented"
C31_InFlightUnaffected ==
    GDone /\ fl.compared =>
        /\ fl.cmp = fl.wrote
        /\ (fl.rb = fl.wrote => ~GReportedLocked)

\* set_write_mode with another URL between the write and the read-back
\* comparison: the tag holds the URL written and is reported as locked
C31_ChangedMidFlight ==
    /\ GDone /\ fl.changed
    /\ fl.tag0 = EmptyTag /\ fl.c.f = NoFault
    /\ fl.wrote = UrlA /\ Decoded(fl.c.tag) = UrlA /\ fl.rb = UrlA
    /\ fl.cmp = UrlB
    /\ GReportedLocked

\* set_read_mode between the write and the read-back comparison
C31_ReadModeMidFlight ==
    /\ GDone /\ fl.changed
    /\ fl.tag0 = EmptyTag /\ fl.c.f = NoFault
    /\ fl.wrote = UrlA /\ fl.rb = UrlA
    /\ fl.cmp = NONE /\ h.mode = "read"
    /\ GReportedLocked

\* without a configuration call during the event the comparison is made
\* with the URL written
C31_UnchangedCompares ==
    GDone /\ fl.compared /\ ~fl.changed =>
        /\ fl.cmp = fl.wrote
        /\ (fl.rb = fl.wrote => ~GReportedLocked)

(***************************************************************************)
(* Properties of the protection of a tag (Spec).                           *)
(***************************************************************************)
ProtectionPages == {LockPage, CFG0Page, CFG1Page, PwdPage, PackPage}

\* the writes of the event to the lock page and to the configuration pages
ProtectionWrites(e) ==
    {i \in Writes(e.c.ops) : e.c.ops[i][2] \in ProtectionPages}

\* the reads of the lock page made after a page write: lock_tag_permanently
\* being called
LockCalls(e) ==
    {i \in 1..Len(e.c.ops) :
        /\ e.c.ops[i] = <<"r", LockPage>>
        /\ \E j \in Writes(e.c.ops) : j < i}

\* operation i comes after the final header write and the read-back
AfterReadBack(e, i) ==
    /\ Cardinality(HeaderWrites(e.c.ops)) = 2
    /\ i > MaxOf(HeaderWrites(e.c.ops)) + 1

\* C32: lock_tag_permanently and set_password_protection are called, in
\* write mode and in update mode, only after write_ndef_message returned
\* success and the immediate read-back equalled the URL to write; on every
\* other path of a card event no write to page 2 or to pages 0x29..0x2C is
\* issued
C32_ProtectOnlyVerified ==
    ev.kind # "none" =>
        \A i \in ProtectionWrites(ev) \cup LockCalls(ev) :
            ConfirmedWrite /\ AfterReadBack(ev, i)

\* update mode: the destination tag is locked after the verified write
C32_Witness ==
    /\ WriteNewEvent /\ ConfirmedWrite
    /\ ev.c.f = NoFault
    /\ ProtectionWrites(ev) # {}
    /\ PhysLocked(ev.c.tag)

\* write mode with a password: the configuration pages are written after the
\* verified write
C32_PasswordWitness ==
    /\ WriteEvent /\ ConfirmedWrite
    /\ ev.before.use_password
    /\ \E i \in ProtectionWrites(ev) : ev.c.ops[i][2] = PwdPage

\* a tag that acknowledges the write and stores nothing: the read-back
\* differs and nothing is locked
C32_MismatchWitness ==
    /\ WriteNewEvent
    /\ WriteReportedSuccess(ev) /\ ~ConfirmedWrite
    /\ ProtectionWrites(ev) = {} /\ LockCalls(ev) = {}

(***************************************************************************)
(* Properties of the lock of the destination tag (SpecUpdate).             *)
(***************************************************************************)
\* update_callback(original, new, True) was emitted
UpdateReportedSuccess ==
    \E i \in Emitted(ev, "update_callback") : ev.out[i].a[3]

\* the read or the write of lock_tag_permanently met the fault
LockCallFailed(e) ==
    \E i \in LockCalls(e) :
        \/ OpFailed(e.c, i)
        \/ i + 1 <= Len(e.c.ops) /\ OpFailed(e.c, i + 1)

\* C33: in update mode, whenever update_callback is emitted with
\* success = True the destination tag has been permanently locked (bytes 2
\* and 3 of page 2 are 0xFF)
C33_SuccessMeansLocked ==
    WriteNewEvent /\ UpdateReportedSuccess => PhysLocked(ev.c.tag)

\* the same provided lock_tag_permanently did not fail
C33_LockedUnlessLockFailed ==
    WriteNewEvent /\ UpdateReportedSuccess /\ ~LockCallFailed(ev)
        => PhysLocked(ev.c.tag)

\* the write of page 2 fails: update_callback(original, new, True) is
\* emitted, the cursor is reset, and the tag is not locked
C33_SuccessUnlocked ==
    /\ WriteNewEvent /\ UpdateReportedSuccess
    /\ ev.tag0 = EmptyTag
    /\ ev.c.f.kind = "status" /\ ~ev.c.f.sticky
    /\ ev.c.f.at = Len(ev.c.ops) /\ ev.c.ops[ev.c.f.at] = <<"w", LockPage>>
    /\ ~PhysLocked(ev.c.tag)
    /\ Decoded(ev.c.tag) = ev.before.pending_rewrite_url
    /\ h.update_step = "scan_old"

(***************************************************************************)
(* Properties of the update cursor (Spec).                                 *)
(***************************************************************************)
\* the cursor and the pending URLs as set_update_mode and
\* cancel_pending_update leave them
CursorCleared(hh) ==
    /\ hh.update_step = "scan_old"
    /\ hh.pending_rewrite_url = NONE
    /\ hh.pending_original_url = NONE

\* whenever mode is update and update_step is write_new, a rewrite URL is
\* pending
PendingWhenWriteNew ==
    h.mode = "update" /\ h.update_step = "write_new"
        => h.pending_rewrite_url # NONE

\* a call of the collaborator, made between card events, that leaves the
\* handler in update mode: set_update_mode or cancel_pending_update
UpdateSetterStep ==
    /\ ev.kind = "none" /\ ev'.kind = "none"
    /\ now' = now
    /\ h'.mode = "update"

\* C34: under any sequence of collaborator operations and card events,
\* whenever mode is update and update_step is write_new the pending rewrite
\* URL is set; set_update_mode and cancel_pending_update leave update_step at
\* scan_old with both pending URLs cleared
C34_PendingSetAtWriteNew ==
    /\ []PendingWhenWriteNew
    /\ [][UpdateSetterStep => CursorCleared(h')]_vars

C34_Witness ==
    /\ h.mode = "update" /\ h.update_step = "write_new"
    /\ h.pending_rewrite_url = LongUrl(MaxLengthByte - 4)
    /\ h.pending_original_url = UrlA
    /\ ev.kind = "none"

(***************************************************************************)
(* SpecBatch: the collaborator configures a batch (gui.py 1311-1322) and   *)
(* cards are presented one after another; on_tag_written (gui.py           *)
(* 1389-1414) announces the end of the batch and changes nothing in the    *)
(* handler.                                                                *)
(***************************************************************************)
\* cards presented to one batch: one more than the largest batch
MaxBatchCards == MaxBatch + 1

BTags == {EmptyTag, TagWith(CreateNdefRecord(UrlOld), FALSE, FALSE),
          TagWith(EmptyMsg, TRUE, FALSE)}

BFaults == {NoFault} \cup [at : 1..MaxWFaultAt, kind : {"status"}, sticky : {FALSE}]

InitBatch == InitWith(WriteSettings)

BSetWriteMode ==
    \E o \in {<<FALSE, FALSE>>, <<TRUE, TRUE>>} :
        SetWriteMode(UrlA, o[1], o[2], FALSE, NONE)

\* start_batch_write: batch_count = 0, batch_total = the spin box's value
BSetBatch == \E n \in 1..MaxBatch : SetBatch(n)

BCardInserted ==
    /\ h.mode = "write"
    /\ h.cards_processed < MaxBatchCards
    /\ \E tag \in BTags, f \in BFaults : Presented(tag, f)

NextBatch ==
    \/ BSetWriteMode
    \/ BSetBatch
    \/ BCardInserted
    \/ Return

SpecBatch == InitBatch /\ [][NextBatch]_vars

\* the handler logged "Present next tag (n/total)" in this event
NextTagLogged == \E i \in 1..Len(ev.out) : ev.out[i] = Log("Present next tag", "info")

\* C35: during a batch (batch_total > 1, batch_count reset to 0 by the
\* collaborator) batch_count never exceeds batch_total under any sequence of
\* card events, and "Present next tag" is logged only while
\* batch_count < batch_total
C35_BatchCountBounded ==
    /\ h.batch_total > 1 => h.batch_count <= h.batch_total
    /\ ev.kind = "write" /\ NextTagLogged => h.batch_count < h.batch_total

\* the second half alone: "Present next tag" is logged only by a write of a
\* batch that leaves batch_count below batch_total
C35_NextTagOnlyWhileOpen ==
    ev.kind = "write" /\ NextTagLogged
        => /\ ev.before.batch_total > 1
           /\ h.batch_count = ev.before.batch_count + 1
           /\ h.batch_count < h.batch_total

\* the card written after the batch was complete
C35_Overrun ==
    /\ ev.kind = "write" /\ ev.before.batch_total = MaxBatch
    /\ ev.before.batch_count = MaxBatch
    /\ h.batch_count = MaxBatch + 1
    /\ ~NextTagLogged

C35_NextTagWitness ==
    /\ ev.kind = "write" /\ NextTagLogged
    /\ h.batch_count = 1 /\ h.batch_total = MaxBatch

(***************************************************************************)
(* SpecWLen: write_ndef_message called with messages of every length:      *)
(* shorter than a page, a few pages, more than the data area holds.        *)
(***************************************************************************)
\* raw messages shorter than one page, the empty message, records of URLs
\* up to one longer than the data area
LMessages ==
    {<<>>, <<3>>, <<3, 0>>, <<3, 0, 254>>, EmptyMsg}
    \cup {CreateNdefRecord(u) : u \in {UrlA, LongUrl(133), LongUrl(250)}}

LTags == {BlankTag, RawTag, TagWith(EmptyMsg, TRUE, FALSE)}

LFaults ==
    {NoFault} \cup [at : 1..MaxWFaultAt, kind : {"status", "exc"}, sticky : {FALSE}]

LCall ==
    /\ w.wm.pc = "idle"
    /\ \E msg \in LMessages, tag \in LTags, f \in LFaults :
         w' = [wm |-> WBegin(Ctx(tag, f), msg), url |-> NONE, tag0 |-> tag]
    /\ UNCHANGED <<h, settings, now, ev, fl, pw, ob, call, mon>>

WShort == WAdvance("short")

NextWLen ==
    \/ LCall
    \/ WFormatCCRead
    \/ WFormatCCWrite
    \/ WShort
    \/ WPlaceholder
    \/ WPage
    \/ WFinal
    \/ WReturn

SpecWLen == InitW /\ [][NextWLen]_vars

\* the pages write_ndef_message may write: the capability container and the
\* data area
WritablePages == {CCPage} \cup FirstDataPage..LastDataPage

\* C36: write_ndef_message issues page writes only to page 3 and to pages
\* 4..39, for every message length; pages 0..2 and 40 and above are never
\* written and keep their bytes, and every page holds exactly 4 bytes after
\* every write
C36_WritesOnlyDataArea ==
    /\ \A i \in Writes(w.wm.c.ops) : w.wm.c.ops[i][2] \in WritablePages
    /\ \A p \in DOMAIN w.tag0.pages :
          /\ Len(w.wm.c.tag.pages[p]) = 4
          /\ p \notin WritablePages => w.wm.c.tag.pages[p] = w.tag0.pages[p]

\* a message longer than the data area: the loop stopped after page 39
C36_Witness ==
    /\ w.wm.pc = "done" /\ w.wm.ret
    /\ Len(w.wm.msg) > 4 * (LastDataPage - FirstDataPage + 1)
    /\ w.wm.remaining # <<>>
    /\ w.wm.c.ops[Len(w.wm.c.ops) - 1] = <<"w", LastDataPage>>

\* a message shorter than one page: one padded write of page 4
C36_ShortWitness ==
    /\ w.wm.pc = "done" /\ w.wm.ret
    /\ w.wm.msg = <<3, 0>>
    /\ w.wm.c.tag.pages[FirstDataPage] = <<3, 0, 0, 0>>
    /\ Cardinality(Writes(w.wm.c.ops)) = 1

(***************************************************************************)
(* SpecProtect: lock_tag_permanently, set_password_protection,             *)
(* is_tag_locked and is_password_protected, called one after another on a  *)
(* tag in the field.  call holds the last call: the tag before it (tag0),  *)
(* its context after it (c: the tag, the operations issued, the fault),    *)
(* its return value (ok), and the call made before it on the same tag      *)
(* (prev, prev_ok).  The tags store what they acknowledge.                 *)
(***************************************************************************)
\* a tag whose page 2 holds b and whose ACCESS byte has PROT set when prot
KTag(b, prot) ==
    [BlankTag EXCEPT !.pages[LockPage] = b,
                     !.pages[CFG0Page] = <<4, 0, 0, 255>>,
                     !.pages[CFG1Page] = <<IF prot THEN 133 ELSE 0, 5, 0, 0>>]

KTags == {KTag(ZeroPage, FALSE), KTag(<<17, 72, 0, 0>>, TRUE),
          KTag(<<17, 72, 255, 0>>, FALSE), KTag(<<17, 72, 0, 255>>, TRUE),
          KTag(<<17, 72, 255, 255>>, FALSE)}

KPasswords == {Password, <<112, 97>>, Password \o <<33>>}

\* set_password_protection issues six operations
KFaults ==
    {NoFault} \cup [at : 1..MaxKFaultAt, kind : {"status", "exc"}, sticky : BOOLEAN]

\* lock_tag_permanently issues two operations, the checks one
KShortFaults ==
    {NoFault} \cup [at : {1, 2}, kind : {"status", "exc"}, sticky : {FALSE}]

KOn == {"lock_tag_permanently", "set_password_protection", "is_tag_locked",
        "is_password_protected"}

\* the tag the next call meets: a tag entering the field, or the tag the
\* last call left
KTagsNow == IF call.fn = "none" THEN KTags ELSE {call.c.tag}

KCalled(fn, tag, password, r, ok) ==
    call' = [fn |-> fn, tag0 |-> tag, password |-> password, c |-> r.c,
             ok |-> ok, prev |-> call.fn,
             prev_ok |-> IF call.fn = "none" THEN FALSE ELSE call.ok]

KFrame ==
    /\ call.fn \in KOn \cup {"none"}
    /\ UNCHANGED <<h, settings, now, ev, w, fl, pw, ob, mon>>

KLockTagPermanently ==
    /\ KFrame
    /\ call.fn \in {"none", "set_password_protection"}
    /\ \E tag \in KTagsNow, f \in KShortFaults :
         \E r \in {LockTagPermanently(Ctx(tag, f))} :
            KCalled("lock_tag_permanently", tag, NONE, r, r.ok)

KSetPasswordProtection ==
    /\ KFrame
    /\ call.fn = "none"
    /\ \E tag \in KTagsNow, f \in KFaults, password \in KPasswords :
         \E r \in {SetPasswordProtection(Ctx(tag, f), password)} :
            KCalled("set_password_protection", tag, password, r, r.ok)

KIsTagLocked ==
    /\ KFrame
    /\ call.fn \in {"none", "lock_tag_permanently", "set_password_protection"}
    /\ \E tag \in KTagsNow, f \in KShortFaults :
         \E r \in {IsTagLocked(Ctx(tag, f))} :
            KCalled("is_tag_locked", tag, NONE, r, r.res)

KIsPasswordProtected ==
    /\ KFrame
    /\ call.fn \in {"none", "lock_tag_permanently", "set_password_protection"}
    /\ \E tag \in KTagsNow, f \in KShortFaults :
         \E r \in {IsPasswordProtected(Ctx(tag, f))} :
            KCalled("is_password_protected", tag, NONE, r, r.res)

\* the tag leaves the field
KRemoved ==
    /\ call.fn \in KOn
    /\ call' = CIdle
    /\ UNCHANGED <<h, settings, now, ev, w, fl, pw, ob, mon>>

NextProtect ==
    \/ KLockTagPermanently
    \/ KSetPasswordProtection
    \/ KIsTagLocked
    \/ KIsPasswordProtected
    \/ KRemoved

SpecProtect == InitWith(DefaultSettings) /\ [][NextProtect]_vars

(***************************************************************************)
(* Properties of set_password_protection (SpecProtect).                    *)
(***************************************************************************)
Protecting == call.fn = "set_password_protection"

\* the pages of the page writes issued, in their order
WrittenPages(ops) == [i \in 1..Len(SelectSeq(ops, LAMBDA o : o[1] = "w")) |->
                         SelectSeq(ops, LAMBDA o : o[1] = "w")[i][2]]

ProtectOrder == <<PwdPage, PackPage, CFG0Page, CFG1Page>>

\* the four pages as a call that wrote them all leaves them
ProtectLanded(tag, password) ==
    /\ tag.pages[PwdPage] = PwdBytes(password)
    /\ tag.pages[PackPage] = <<Xor(PwdBytes(password)[1], 170),
                               Xor(PwdBytes(password)[2], 85), 0, 0>>
    /\ tag.pages[CFG0Page][4] = 4
    /\ tag.pages[CFG1Page][1] < 128

\* C37: set_password_protection writes, in this order, the password page,
\* the PACK page, AUTH0 = 4 on page 0x29 and the ACCESS byte with PROT
\* cleared on page 0x2A; it returns success only if all four writes
\* succeeded, issues no operation after a failing write, and after a
\* successful call is_password_protected reports true for the tag
C37_PasswordProtection ==
    Protecting =>
        /\ StartsWith(ProtectOrder, WrittenPages(call.c.ops))
        /\ \A i \in Writes(call.c.ops) :
              OpFailed(call.c, i) => i = Len(call.c.ops) /\ ~call.ok
        /\ call.ok =>
              /\ WrittenPages(call.c.ops) = ProtectOrder
              /\ \A i \in Writes(call.c.ops) : ~OpFailed(call.c, i)
              /\ ProtectLanded(call.c.tag, call.password)
              /\ IsPasswordProtected(Ctx(call.c.tag, NoFault)).res

\* is_password_protected, called after a successful set_password_protection
\* on the same tag, answers true when its read of page 0x29 answers
C37_ReportedProtected ==
    /\ call.fn = "is_password_protected"
    /\ call.prev = "set_password_protection" /\ call.prev_ok
    /\ ~OpFailed(call.c, 1)
    => call.ok

\* "pass" on a tag whose ACCESS byte had PROT set: all four pages written
C37_Witness ==
    /\ Protecting /\ call.ok
    /\ call.password = Password
    /\ call.tag0.pages[CFG1Page][1] = 133 /\ call.tag0.pages[CFG0Page][4] = 255
    /\ call.c.tag.pages[PwdPage] = <<112, 97, 115, 115>>
    /\ call.c.tag.pages[PackPage] = <<218, 52, 0, 0>>
    /\ call.c.tag.pages[CFG0Page] = <<4, 0, 0, 4>>
    /\ call.c.tag.pages[CFG1Page] = <<5, 5, 0, 0>>

\* the write of the PACK page fails: nothing is issued after it
C37_StoppedWitness ==
    /\ Protecting /\ ~call.ok
    /\ call.c.ops = <<<<"w", PwdPage>>, <<"w", PackPage>>>>
    /\ call.c.tag.pages[PwdPage] = PwdBytes(call.password)
    /\ call.c.tag.pages[CFG0Page] = call.tag0.pages[CFG0Page]

C37_ReportedWitness ==
    /\ call.fn = "is_password_protected" /\ call.ok
    /\ call.prev = "set_password_protection" /\ call.prev_ok

(***************************************************************************)
(* Properties of lock_tag_permanently and is_tag_locked (SpecProtect).     *)
(***************************************************************************)
Locking == call.fn = "lock_tag_permanently"

\* page 2 with its bytes 2 and 3 set and its bytes 0 and 1 as they were
LockedPage(page2) == <<page2[1], page2[2], 255, 255>>

\* C38: lock_tag_permanently changes only bytes 2 and 3 of page 2, both to
\* 0xFF, and writes bytes 0 and 1 back as read; after a successful call
\* is_tag_locked returns true; is_tag_locked returns true only if both
\* bytes read are 0xFF; a failed lock_tag_permanently leaves the lock bytes
\* unchanged
C38_LockTagPermanently ==
    /\ Locking =>
          /\ \A p \in DOMAIN call.tag0.pages :
                p # LockPage => call.c.tag.pages[p] = call.tag0.pages[p]
          /\ \A i \in Writes(call.c.ops) : call.c.ops[i] = <<"w", LockPage>>
          /\ call.ok =>
                /\ call.c.tag.pages[LockPage] = LockedPage(call.tag0.pages[LockPage])
                /\ IsTagLocked(Ctx(call.c.tag, NoFault)).res
          /\ ~call.ok => call.c.tag.pages[LockPage] = call.tag0.pages[LockPage]
    /\ call.fn = "is_tag_locked" =>
          /\ call.c.tag = call.tag0
          /\ call.ok => /\ call.tag0.pages[LockPage][3] = 255
                        /\ call.tag0.pages[LockPage][4] = 255

\* is_tag_locked, called after a successful lock_tag_permanently on the same
\* tag, answers true when its read of page 2 answers
C38_ReportedLocked ==
    /\ call.fn = "is_tag_locked"
    /\ call.prev = "lock_tag_permanently" /\ call.prev_ok
    /\ ~OpFailed(call.c, 1)
    => call.ok

\* an unlocked tag with bytes in the first half of page 2 is locked
C38_Witness ==
    /\ Locking /\ call.ok
    /\ call.tag0.pages[LockPage] = <<17, 72, 0, 0>>
    /\ call.c.tag.pages[LockPage] = <<17, 72, 255, 255>>
    /\ call.c.ops = <<<<"r", LockPage>>, <<"w", LockPage>>>>

\* the write of page 2 fails: the lock bytes stay
C38_FailedWitness ==
    /\ Locking /\ ~call.ok
    /\ Len(call.c.ops) = 2
    /\ call.c.tag.pages[LockPage] = <<17, 72, 255, 0>>

\* one lock byte alone does not count as locked
C38_OneByteWitness ==
    /\ call.fn = "is_tag_locked" /\ ~call.ok
    /\ call.c.f = NoFault
    /\ call.tag0.pages[LockPage] = <<17, 72, 0, 255>>

C38_ReportedWitness ==
    /\ call.fn = "is_tag_locked" /\ call.ok
    /\ call.prev = "lock_tag_permanently" /\ call.prev_ok

(***************************************************************************)
(* SpecGuard: cards of every kind of content, locked and unlocked, are     *)
(* presented to a handler configured for writing (with and without         *)
(* allow_overwrite) or waiting for the new tag of an update.               *)
(***************************************************************************)
\* " https://a.b": a URI record whose string has a leading space
UrlSpaced == <<Space>> \o UrlA

\* a TLV whose payload is no NDEF message
GarbageMsg == <<TlvNdef, 5, 1, 2, 3, 4, 5, TlvTerminator>>

QMessages == {EmptyMsg, GarbageMsg} \cup
             {CreateNdefRecord(u) : u \in {UrlOld, UrlB, TextTel, UrlSpaced}}

QTags == {TagWith(m, locked, FALSE) : m \in QMessages, locked \in BOOLEAN}

QFaults ==
    {NoFault} \cup [at : 1..MaxKFaultAt, kind : {"status", "exc"}, sticky : {FALSE}]

\* the handler after set_write_mode(url, allow_overwrite = o), or after
\* set_update_mode, a scan and confirm_update_write
QHandlers ==
    {[HandlerInit EXCEPT !.mode = "write", !.url_to_write = UrlA,
                         !.allow_overwrite = o] : o \in BOOLEAN}
    \cup {[HandlerInit EXCEPT !.mode = "update", !.update_step = "write_new",
                              !.pending_original_url = UrlOld,
                              !.pending_rewrite_url = UrlA]}

InitGuard ==
    /\ h \in QHandlers
    /\ settings = SettingsInit
    /\ now = StartTime
    /\ ev = EvNone
    /\ w = WIdle
    /\ fl = FIdle
    /\ pw = PIdle
    /\ ob = OIdle
    /\ call = CIdle
    /\ mon = MonInit

QCardInserted ==
    /\ h.cards_processed < MaxCount
    /\ \E tag \in QTags, f \in QFaults : Presented(tag, f)

NextGuard ==
    \/ QCardInserted
    \/ Return

SpecGuard == InitGuard /\ [][NextGuard]_vars

(***************************************************************************)
(* Properties of the existing-content guards (SpecGuard).                  *)
(***************************************************************************)
\* what the event's lock check answered, and the string its content check
\* decoded (NONE when nothing decoded)
GuardLocked == IsTagLocked(Ctx(ev.tag0, ev.c.f)).res
GuardDecoded == ReadNdefMessage(IsTagLocked(Ctx(ev.tag0, ev.c.f)).c).url

\* the events in which a content guard decides: write mode on a tag found
\* locked, write mode without allow_overwrite, the write_new step on a tag
\* found unlocked
GuardDecides ==
    \/ WriteEvent /\ (GuardLocked \/ ~ev.before.allow_overwrite)
    \/ WriteNewEvent /\ ~GuardLocked

\* the guard took the tag for one with content
TakenForContent ==
    \/ Blocked
    \/ Emitted(ev, "locked_tag_callback") # {}
    \/ ev.out = <<Log("Tag has data - use blank tag", "warning")>>

HttpPrefixed(s) == StartsWith(s, HTTP) \/ StartsWith(s, HTTPS)

\* a tag found unlocked and taken for blank is written
WrittenWhenBlank ==
    GuardDecides /\ ~GuardLocked /\ ~TakenForContent => Writes(ev.c.ops) # {}

C39_SpacedWitness ==
    /\ WriteEvent /\ ~ev.before.allow_overwrite
    /\ GuardDecoded = UrlSpaced
    /\ Blocked

C39_UndecodableWitness ==
    /\ WriteNewEvent /\ ev.c.f = NoFault
    /\ DataPages(ev.tag0) = DataPages(TagWith(GarbageMsg, FALSE, FALSE))
    /\ GuardDecoded = NONE
    /\ Decoded(ev.c.tag) = UrlA

C39_LockedUrlWitness ==
    /\ WriteEvent /\ GuardLocked
    /\ ev.out = <<LockedTagCb(UrlB)>>

(***************************************************************************)
(* SpecMonitor: start_monitoring and stop_monitoring called in any order,  *)
(* with the readers the system lists at each call (none, one, several, or  *)
(* smartcard.System.readers raising).  The card monitor keeps the          *)
(* observers added and not deleted.                                        *)
(***************************************************************************)
\* start_monitoring is not tried once this many observers are registered
MaxObservers == 3

ReaderLists == {<<>>, <<"ACS ACR1252 PICC">>, <<"Other">>,
                <<"Other", "ACS ACR1252 PICC">>, <<"Other", "Third">>}

IsACR1252(name) == name = "ACS ACR1252 PICC"

\* initialize_reader: the reader chosen and the return value
InitializeReader(hm, available, raises) ==
    IF raises
    THEN [hm |-> hm, ok |-> FALSE,
          out |-> IF hm.callbacks # 0
                  THEN <<Log("Reader initialization failed", "error")>> ELSE <<>>]
    ELSE IF available = <<>> THEN [hm |-> hm, ok |-> FALSE, out |-> <<>>]
    ELSE LET hits == {i \in 1..Len(available) :
                         IsACR1252(available[i]) \/ Len(available) = 1}
             found == IF hits = {} THEN hm.reader
                      ELSE available[CHOOSE i \in hits : \A j \in hits : i <= j]
         IN [hm |-> [hm EXCEPT !.reader = IF found = NoReader THEN available[1]
                                          ELSE found],
             ok |-> TRUE, out |-> <<>>]

\* start_monitoring with the callbacks numbered k
StartMonitoringUnguarded(k, available, raises) ==
    /\ mon.reg < MaxObservers
    /\ \E r \in {InitializeReader([mon.hm EXCEPT !.callbacks = k],
                                  available, raises)} :
          mon' = [hm |-> IF r.ok
                         THEN [r.hm EXCEPT !.observer = TRUE, !.monitor = TRUE,
                                           !.is_monitoring = TRUE]
                         ELSE r.hm,
                  reg |-> IF r.ok THEN mon.reg + 1 ELSE mon.reg,
                  last |-> [fn |-> "start_monitoring", before |-> mon.hm,
                            reg0 |-> mon.reg, readers |-> available,
                            raises |-> raises,
                            out |-> IF r.ok THEN r.out
                                    ELSE r.out \o <<Log("Failed to connect to reader",
                                                        "error")>>]]
    /\ UNCHANGED <<h, settings, now, ev, w, fl, pw, ob, call>>
StartMonitoring(k, available, raises) ==
    /\ mon.reg < MaxObservers
    /\ IF mon.hm.is_monitoring
       THEN mon' = [mon EXCEPT !.last = [fn |-> "start_monitoring",
                                          before |-> mon.hm, reg0 |-> mon.reg,
                                          readers |-> available,
                                          raises |-> raises, out |-> <<>>]]
       ELSE \E r \in {InitializeReader([mon.hm EXCEPT !.callbacks = k],
                                       available, raises)} :
          mon' = [hm |-> IF r.ok
                         THEN [r.hm EXCEPT !.observer = TRUE, !.monitor = TRUE,
                                           !.is_monitoring = TRUE]
                         ELSE r.hm,
                  reg |-> IF r.ok THEN mon.reg + 1 ELSE mon.reg,
                  last |-> [fn |-> "start_monitoring", before |-> mon.hm,
                            reg0 |-> mon.reg, readers |-> available,
                            raises |-> raises,
                            out |-> IF r.ok THEN r.out
                                    ELSE r.out \o <<Log("Failed to connect to reader",
                                                        "error")>>]]
    /\ UNCHANGED <<h, settings, now, ev, w, fl, pw, ob, call>>

\* stop_monitoring
StopMonitoring ==
    /\ mon' = [hm |-> IF mon.hm.is_monitoring
                      THEN [mon.hm EXCEPT !.monitor = FALSE, !.observer = FALSE,
                                          !.is_monitoring = FALSE]
                      ELSE mon.hm,
               reg |-> IF mon.hm.is_monitoring /\ mon.hm.monitor /\ mon.hm.observer
                       THEN mon.reg - 1 ELSE mon.reg,
               last |-> [fn |-> "stop_monitoring", before |-> mon.hm,
                         reg0 |-> mon.reg, readers |-> <<>>, raises |-> FALSE,
                         out |-> <<>>]]
    /\ UNCHANGED <<h, settings, now, ev, w, fl, pw, ob, call>>

MStartMonitoring ==
    \E k \in {1, 2}, available \in ReaderLists, raises \in BOOLEAN :
        /\ raises => available = <<>>
        /\ StartMonitoring(k, available, raises)

NextMonitor ==
    \/ MStartMonitoring
    \/ StopMonitoring

SpecMonitor == InitWith(DefaultSettings) /\ [][NextMonitor]_vars

(***************************************************************************)
(* Properties of start_monitoring and stop_monitoring (SpecMonitor).       *)
(***************************************************************************)
MonUnchanged == mon.hm = mon.last.before /\ mon.reg = mon.last.reg0

\* C40: under any sequence of start_monitoring and stop_monitoring calls,
\* is_monitoring is true exactly when monitor and observer are both set, and
\* at most one observer is registered with the card monitor;
\* start_monitoring while monitoring is a no-op that keeps the callbacks of
\* the first call, start_monitoring with no reader available leaves
\* is_monitoring false, stop_monitoring while not monitoring is a no-op
C40_MonitoringConsistent ==
    /\ mon.hm.is_monitoring <=> (mon.hm.monitor /\ mon.hm.observer)
    /\ mon.hm.monitor <=> mon.hm.observer
    /\ mon.reg = IF mon.hm.is_monitoring THEN 1 ELSE 0
    /\ mon.last.fn = "start_monitoring" /\ mon.last.before.is_monitoring
          => MonUnchanged
    /\ (/\ mon.last.fn = "start_monitoring" /\ ~mon.last.before.is_monitoring
        /\ (mon.last.readers = <<>> \/ mon.last.raises))
          => ~mon.hm.is_monitoring /\ mon.reg = mon.last.reg0
    /\ mon.last.fn = "stop_monitoring" /\ ~mon.last.before.is_monitoring
          => MonUnchanged

\* a second start_monitoring, with other callbacks and other readers, while
\* monitoring
C40_Witness ==
    /\ mon.last.fn = "start_monitoring" /\ mon.last.before.is_monitoring
    /\ mon.last.readers = <<"Other", "Third">>
    /\ mon.hm.is_monitoring /\ mon.hm.callbacks = 1
    /\ mon.hm.reader = "ACS ACR1252 PICC"
    /\ mon.reg = 1

C40_NoReaderWitness ==
    /\ mon.last.fn = "start_monitoring" /\ mon.last.readers = <<>>
    /\ ~mon.last.raises
    /\ mon.last.before.callbacks = 1 /\ mon.hm.callbacks = 2
    /\ ~mon.hm.is_monitoring
    /\ mon.last.out = <<Log("Failed to connect to reader", "error")>>

C40_StoppedWitness ==
    /\ mon.last.fn = "stop_monitoring" /\ mon.last.before.is_monitoring
    /\ ~mon.hm.is_monitoring /\ mon.reg = 0 /\ mon.hm.reader # NoReader

====
